---- MODULE Spec2Model ----
(***************************************************************************)
(* ts-literate: the layer extractor (extractLayers, illiterate) and the    *)
(* token renderer (renderToken, sanitizeId, computeLink).                  *)
(*                                                                         *)
(* A text is a sequence of one-character strings, so that lengths,         *)
(* offsets, slicing and per-character replacement mean what they mean in   *)
(* the source.                                                             *)
(***************************************************************************)
EXTENDS Integers, Sequences, FiniteSets, TLC

\* ------------------------------------------------------------------------
\* Bounds of the model
\* ------------------------------------------------------------------------

\* every text over Chars of at most MaxLen characters is a source
MaxLen == 7
\* every sequence of 1..MaxLines lines of LineShapes is a source
MaxLines == 4

NL == "\n"
Chars == {"/", " ", NL}

\* ------------------------------------------------------------------------
\* String primitives (JavaScript String.prototype)
\* ------------------------------------------------------------------------

\* the white space String.prototype.trim / trimStart remove
WhiteSpace == {" ", "\t", "\r", NL}

RECURSIVE trimStart(_)
trimStart(s) ==
  IF s # <<>> /\ Head(s) \in WhiteSpace THEN trimStart(Tail(s)) ELSE s

RECURSIVE trimEnd(_)
trimEnd(s) ==
  IF s # <<>> /\ s[Len(s)] \in WhiteSpace
    THEN trimEnd(SubSeq(s, 1, Len(s) - 1))
    ELSE s

trim(s) == trimEnd(trimStart(s))

startsWith(s, p) == Len(s) >= Len(p) /\ SubSeq(s, 1, Len(p)) = p

endsWith(s, p) ==
  Len(s) >= Len(p) /\ SubSeq(s, Len(s) - Len(p) + 1, Len(s)) = p

\* s.slice(n)
slice(s, n) == SubSeq(s, n + 1, Len(s))

\* c.repeat(n)
repeat(c, n) == [i \in 1..n |-> c]

RECURSIVE splitFrom(_, _, _)
splitFrom(s, i, cur) ==
  IF i > Len(s) THEN <<cur>>
  ELSE IF s[i] = NL THEN <<cur>> \o splitFrom(s, i + 1, <<>>)
  ELSE splitFrom(s, i + 1, Append(cur, s[i]))

\* s.split("\n"): the newlines are eaten, "" splits into one empty line
split(s) == splitFrom(s, 1, <<>>)

RECURSIVE join(_)
\* lines.join("\n")
join(ls) ==
  IF Len(ls) = 0 THEN <<>>
  ELSE IF Len(ls) = 1 THEN ls[1]
  ELSE ls[1] \o <<NL>> \o join(Tail(ls))

\* ------------------------------------------------------------------------
\* extractLayers (src/src/extract.ts)
\* ------------------------------------------------------------------------

\* the prose marker "///"
Marker == <<"/", "/", "/">>

\* const lineLength = line.length + (isLast ? 0 : 1)
lineLength_noNewline(line, isLast) == Len(line)
lineLength(line, isLast) == Len(line) + (IF isLast THEN 0 ELSE 1)

\* trimmed.startsWith("///") with trimmed = line.trimStart()
isProse_noTrim(line) == startsWith(line, Marker)
isProse(line) == startsWith(trimStart(line), Marker)

\* proseContent: the marker and one optional space removed from the
\* trimmed line
proseContent(trimmed) ==
  LET rest == slice(trimmed, 3)
  IN  IF startsWith(rest, <<" ">>) THEN slice(rest, 1) ELSE rest

\* the scanner's variables before the first line
scanInit ==
  [layers |-> <<>>, offset |-> 0, currentRole |-> "null",
   currentContent |-> <<>>, currentOffset |-> 0, currentOriginalLength |-> 0]

\* flush that packages the buffer whatever its length
flush_anyLength(st) ==
  [st EXCEPT
     !.layers = IF st.currentRole # "null"
                  THEN Append(@, [role |-> st.currentRole,
                                  content |-> st.currentContent,
                                  offset |-> st.currentOffset,
                                  originalLength |-> st.currentOriginalLength])
                  ELSE @,
     !.currentContent = <<>>,
     !.currentOriginalLength = 0]

flush(st) ==
  [st EXCEPT
     !.layers = IF Len(st.currentContent) > 0 /\ st.currentRole # "null"
                  THEN Append(@, [role |-> st.currentRole,
                                  content |-> st.currentContent,
                                  offset |-> st.currentOffset,
                                  originalLength |-> st.currentOriginalLength])
                  ELSE @,
     !.currentContent = <<>>,
     !.currentOriginalLength = 0]

\* the role switch at the head of either branch of the loop body
switchRole(st, role) ==
  IF st.currentRole # role
    THEN [flush(st) EXCEPT !.currentRole = role, !.currentOffset = st.offset]
    ELSE st

\* one iteration of the line loop
scanLine(st, line, isLast) ==
  LET trimmed == trimStart(line)
      role    == IF isProse(line) THEN "prose" ELSE "code"
      text    == IF role = "prose" THEN proseContent(trimmed) ELSE line
      s1      == switchRole(st, role)
  IN  [s1 EXCEPT
         !.currentContent = @ \o text \o (IF isLast THEN <<>> ELSE <<NL>>),
         !.currentOriginalLength = @ + lineLength(line, isLast),
         !.offset = @ + lineLength(line, isLast)]

RECURSIVE scanLines(_, _, _)
scanLines(st, lines, i) ==
  IF i > Len(lines) THEN st
  ELSE scanLines(scanLine(st, lines[i], i = Len(lines)), lines, i + 1)

\* the layers of the first pass: the loop, then the final flush
firstPass(source) == flush(scanLines(scanInit, split(source), 1)).layers

Max(a, b) == IF a >= b THEN a ELSE b

\* blank code between two prose sections: the preceding prose layer takes
\* the newlines and the length of the blank layer
absorbBlank_keepLength(prev, layer) ==
  [prev EXCEPT
     !.content = @ \o repeat(NL, Max(1, Len(split(layer.content)) - 1))]
absorbBlank(prev, layer) ==
  [prev EXCEPT
     !.content = @ \o repeat(NL, Max(1, Len(split(layer.content)) - 1)),
     !.originalLength = @ + layer.originalLength]

\* adjacent prose layers are concatenated
absorbProse(prev, layer) ==
  [prev EXCEPT
     !.content = @ \o layer.content,
     !.originalLength = @ + layer.originalLength]

Last(s) == s[Len(s)]
SetLast(s, x) == [s EXCEPT ![Len(s)] = x]

\* one iteration of the merging loop
mergeStep_keepBlank(merged, layers, i) ==
  LET layer    == layers[i]
      prevProse == Len(merged) > 0 /\ Last(merged).role = "prose"
      nextProse == i + 1 <= Len(layers) /\ layers[i + 1].role = "prose"
  IN  IF layer.role = "code" /\ trim(layer.content) = <<>> /\ prevProse /\ nextProse
        THEN SetLast(merged, absorbBlank(Last(merged), layer))
      ELSE IF layer.role = "prose" /\ prevProse
        THEN SetLast(merged, absorbProse(Last(merged), layer))
      ELSE Append(merged, layer)
mergeStep_noMerge(merged, layers, i) ==
  IF layers[i].role = "code" /\ trim(layers[i].content) = <<>>
    THEN merged
    ELSE Append(merged, layers[i])
mergeStep(merged, layers, i) ==
  LET layer    == layers[i]
      prevProse == Len(merged) > 0 /\ Last(merged).role = "prose"
      nextProse == i + 1 <= Len(layers) /\ layers[i + 1].role = "prose"
  IN  IF layer.role = "code" /\ trim(layer.content) = <<>>
        THEN IF prevProse /\ nextProse
               THEN SetLast(merged, absorbBlank(Last(merged), layer))
               ELSE merged
      ELSE IF layer.role = "prose" /\ prevProse
        THEN SetLast(merged, absorbProse(Last(merged), layer))
      ELSE Append(merged, layer)

RECURSIVE mergeFrom(_, _, _)
mergeFrom(merged, layers, i) ==
  IF i > Len(layers) THEN merged
  ELSE mergeFrom(mergeStep(merged, layers, i), layers, i + 1)

extractLayers(source) == mergeFrom(<<>>, firstPass(source), 1)

\* ------------------------------------------------------------------------
\* illiterate (src/src/extract.ts)
\* ------------------------------------------------------------------------

\* the loop body: a prose line becomes spaces, any other line is kept
illiterateLine_markerOnly(line) ==
  IF isProse(line)
    THEN LET indent == Len(line) - Len(trimStart(line))
         IN  SubSeq(line, 1, indent) \o repeat(" ", 3) \o slice(line, indent + 3)
    ELSE line
illiterateLine_trimmedWidth(line) ==
  IF isProse(line) THEN repeat(" ", Len(trimStart(line))) ELSE line
illiterateLine(line) ==
  IF isProse(line) THEN repeat(" ", Len(line)) ELSE line

illiterate(source) ==
  LET lines == split(source)
  IN  join([i \in 1..Len(lines) |-> illiterateLine(lines[i])])

\* ------------------------------------------------------------------------
\* Tokens (src/src/html/tokens.ts and its copy without prose comments)
\* ------------------------------------------------------------------------

\* [a-zA-Z0-9]
AlphaNum ==
  { "a", "b", "c", "d", "e", "f", "g", "h", "i", "j", "k", "l", "m",
    "n", "o", "p", "q", "r", "s", "t", "u", "v", "w", "x", "y", "z",
    "A", "B", "C", "D", "E", "F", "G", "H", "I", "J", "K", "L", "M",
    "N", "O", "P", "Q", "R", "S", "T", "U", "V", "W", "X", "Y", "Z",
    "0", "1", "2", "3", "4", "5", "6", "7", "8", "9" }

\* s.replace(/[^a-zA-Z0-9]/g, "-")
sanitizeId_strip(s) == SelectSeq(s, LAMBDA c : c \in AlphaNum)
sanitizeId(s) == [i \in 1..Len(s) |-> IF s[i] \in AlphaNum THEN s[i] ELSE "-"]

RECURSIVE flatten(_)
flatten(ss) == IF ss = <<>> THEN <<>> ELSE Head(ss) \o flatten(Tail(ss))

\* the four replacements of escapeHtml; '&' goes first, so the entities
\* the later ones write are not escaped again
escapeHtml(s) ==
  flatten([i \in 1..Len(s) |->
    CASE s[i] = "&"  -> <<"&", "a", "m", "p", ";">>
      [] s[i] = "<"  -> <<"&", "l", "t", ";">>
      [] s[i] = ">"  -> <<"&", "g", "t", ";">>
      [] s[i] = "\"" -> <<"&", "q", "u", "o", "t", ";">>
      [] OTHER       -> <<s[i]>>])

Digits == <<"0", "1", "2", "3", "4", "5", "6", "7", "8", "9">>

RECURSIVE numberToString(_)
\* a non-negative integer in a template literal: its decimal digits
numberToString(n) ==
  IF n < 10 THEN <<Digits[n + 1]>>
  ELSE numberToString(n \div 10) \o <<Digits[(n % 10) + 1]>>

\* const defId = `${def.fileName}:${def.textSpan.start}`
definitionKey(fileName, start) == fileName \o <<":">> \o numberToString(start)

\* `def-${sanitizeId(id)}`
DefPrefix == <<"d", "e", "f", "-">>
defAnchor(definitionId) == DefPrefix \o sanitizeId(definitionId)

\* token.classes.map(c => `ts-${c}`).join(" "): the prefixed class names
classAttr(token) == [i \in 1..Len(token.classes) |-> <<"ts-", token.classes[i]>>]

\* Map.prototype.set on the map kept as its entries in insertion order
mapSet(m, k, v) ==
  IF \E i \in 1..Len(m) : m[i].key = k
    THEN [i \in 1..Len(m) |-> IF m[i].key = k THEN [key |-> k, value |-> v] ELSE m[i]]
    ELSE Append(m, [key |-> k, value |-> v])

mapHas(m, k) == \E i \in 1..Len(m) : m[i].key = k

\* ---- path (node:path, posix), on the paths the build hands it ----------

RECURSIVE splitPath(_, _, _)
splitPath(p, i, cur) ==
  IF i > Len(p) THEN <<cur>>
  ELSE IF p[i] = "/" THEN <<cur>> \o splitPath(p, i + 1, <<>>)
  ELSE splitPath(p, i + 1, Append(cur, p[i]))

\* the segments of a path; empty segments and "." count for nothing
segments(p) ==
  SelectSeq(splitPath(p, 1, <<>>), LAMBDA g : g # <<>> /\ g # <<".">>)

RECURSIVE joinPath(_)
joinPath(gs) ==
  IF Len(gs) = 0 THEN <<>>
  ELSE IF Len(gs) = 1 THEN gs[1]
  ELSE gs[1] \o <<"/">> \o joinPath(Tail(gs))

RECURSIVE commonPrefix(_, _)
commonPrefix(a, b) ==
  IF a # <<>> /\ b # <<>> /\ Head(a) = Head(b)
    THEN 1 + commonPrefix(Tail(a), Tail(b))
    ELSE 0

\* path.relative(from, to): up from what is left of from, down into to
relative(from, to) ==
  LET f == segments(from)
      t == segments(to)
      c == commonPrefix(f, t)
  IN  joinPath([i \in 1..(Len(f) - c) |-> <<".", ".">>] \o SubSeq(t, c + 1, Len(t)))

\* path.dirname of a relative path
dirname(p) ==
  LET g == segments(p)
  IN  IF Len(g) <= 1 THEN <<".">> ELSE joinPath(SubSeq(g, 1, Len(g) - 1))

\* tsPath.replace(/\.d\.ts$/, ".d.html").replace(/\.ts$/, ".html")
DotTs == <<".", "t", "s">>
DotDTs == <<".", "d", ".", "t", "s">>
toHtmlPath(tsPath) ==
  LET stem(s, suffix) == SubSeq(s, 1, Len(s) - Len(suffix))
      p1 == IF endsWith(tsPath, DotDTs)
              THEN stem(tsPath, DotDTs) \o <<".", "d", ".", "h", "t", "m", "l">>
              ELSE tsPath
  IN  IF endsWith(p1, DotTs)
        THEN stem(p1, DotTs) \o <<".", "h", "t", "m", "l">>
        ELSE p1

RECURSIVE stripDotDot(_)
\* while (p.startsWith("../")) p = p.slice(3)
stripDotDot(p) ==
  IF startsWith(p, <<".", ".", "/">>) THEN stripDotDot(slice(p, 3)) ELSE p

toOutputRelative(projectRoot, file) == stripDotDot(relative(projectRoot, file))

\* the link function generateHtmlMulti hands to renderToken
computeLink_fromDocument(projectRoot, fromFile, toFile, anchor) ==
  LET fromRel == toHtmlPath(toOutputRelative(projectRoot, fromFile))
      toRel   == toHtmlPath(toOutputRelative(projectRoot, toFile))
  IN  relative(fromRel, toRel) \o <<"#">> \o anchor
computeLink(projectRoot, fromFile, toFile, anchor) ==
  LET fromRel == toHtmlPath(toOutputRelative(projectRoot, fromFile))
      toRel   == toHtmlPath(toOutputRelative(projectRoot, toFile))
      rel     == relative(dirname(fromRel), toRel)
  IN  rel \o <<"#">> \o anchor

\* ---- renderToken -------------------------------------------------------

\* an absent attribute is absent from the function
NoAttrs == [a \in {} |-> <<>>]

Element(tag, attrs, text) ==
  [kind |-> "element", tag |-> tag, attrs |-> attrs, text |-> text]

\* an exception leaves renderToken instead of a string
Throws(error) == [kind |-> "throw", error |-> error]

\* tokenId: set when the token has hover text and the map and the counter
\* were passed
mintsId(token, opts) ==
  token.quickInfo # <<>> /\ opts.hasQuickInfoMap /\ opts.hasTokenIdCounter

tokenIdOf(counter) == <<"t">> \o numberToString(counter)

\* const idAttr = tokenId ? ` id="${tokenId}"` : ""
idAttrs(token, opts) ==
  IF mintsId(token, opts)
    THEN [a \in {"id"} |-> tokenIdOf(opts.tokenIdCounter)]
    ELSE NoAttrs

withAttr(attrs, name, value) ==
  [a \in DOMAIN attrs \cup {name} |-> IF a = name THEN value ELSE attrs[a]]

\* the token is a reference: not a definition site, and it has a target
isReference(token) ==
  ~token.isDefinition /\ token.definitionId # <<>> /\ token.definitionFile # <<>>

\* the definition is outside the known files and externals are not rendered
isUnlinkedExternal_whenIncluded(token, opts) ==
  /\ opts.hasKnownFiles
  /\ token.definitionFile \notin opts.knownFiles
  /\ opts.includeExternals
isUnlinkedExternal(token, opts) ==
  /\ opts.hasKnownFiles
  /\ token.definitionFile \notin opts.knownFiles
  /\ ~opts.includeExternals

\* the side map and the counter after the prologue of renderToken and the
\* definition branch
quickInfoAfter(token, opts) ==
  LET m1 == IF mintsId(token, opts)
              THEN mapSet(opts.quickInfoMap, tokenIdOf(opts.tokenIdCounter),
                          token.quickInfo)
              ELSE opts.quickInfoMap
  IN  IF token.isDefinition /\ token.quickInfo # <<>> /\ opts.hasQuickInfoMap
        THEN mapSet(m1, defAnchor(token.definitionId), token.quickInfo)
        ELSE m1

\* counterAfter of a counter that is read and not advanced
counterAfter_notAdvanced(token, opts) == opts.tokenIdCounter

counterAfter(token, opts) ==
  IF mintsId(token, opts) THEN opts.tokenIdCounter + 1 ELSE opts.tokenIdCounter

definitionElement(token) ==
  LET defId == defAnchor(token.definitionId)
  IN  Element("a",
              [a \in {"id", "href", "class"} |->
                 CASE a = "id" -> defId
                   [] a = "href" -> <<"#">> \o defId
                   [] a = "class" -> classAttr(token)],
              escapeHtml(token.text))

spanElement(token, opts) ==
  Element("span", withAttr(idAttrs(token, opts), "class", classAttr(token)),
          escapeHtml(token.text))

\* the href of a reference, given its anchor
hrefOf(token, currentFile, opts, anchor) ==
  IF token.definitionFile = currentFile THEN <<"#">> \o anchor
  ELSE IF opts.hasComputeLink
    THEN computeLink(opts.projectRoot, currentFile, token.definitionFile, anchor)
  ELSE toHtmlPath(token.definitionFile) \o <<"#">> \o anchor

linkElement(token, currentFile, opts, anchor) ==
  Element("a",
          withAttr(withAttr(idAttrs(token, opts), "href",
                            hrefOf(token, currentFile, opts, anchor)),
                   "class", classAttr(token)),
          escapeHtml(token.text))

\* renderToken of src/src/html/tokens.ts: the reference branch reads
\* `anchor`, which nothing in the file declares, so evaluating the href
\* throws a ReferenceError
renderToken(token, currentFile, opts) ==
  IF token.isDefinition THEN definitionElement(token)
  ELSE IF token.definitionId # <<>> /\ token.definitionFile # <<>>
    THEN IF isUnlinkedExternal(token, opts)
           THEN spanElement(token, opts)
           ELSE Throws("ReferenceError: anchor is not defined")
  ELSE spanElement(token, opts)

\* renderToken of the copy without prose comments: the reference branch
\* starts with const anchor = `def-${sanitizeId(token.definitionId)}`
renderTokenPlain(token, currentFile, opts) ==
  IF token.isDefinition THEN definitionElement(token)
  ELSE IF token.definitionId # <<>> /\ token.definitionFile # <<>>
    THEN IF isUnlinkedExternal(token, opts)
           THEN spanElement(token, opts)
           ELSE linkElement(token, currentFile, opts, defAnchor(token.definitionId))
  ELSE spanElement(token, opts)

\* the anchor renderSymbolChildren writes for an outline item
indexAnchor(filename, start) ==
  DefPrefix \o sanitizeId(filename) \o <<"-">> \o numberToString(start)

\* ------------------------------------------------------------------------
\* State
\* ------------------------------------------------------------------------

VARIABLES
  source,     \* the text handed to extractLayers / illiterate
  pc,         \* which call has been made on it
  layers,     \* the result of extractLayers(source)
  masked,     \* the result of illiterate(source)
  remasked,   \* the result of illiterate(illiterate(source))
  tokensCopy,     \* which copy of tokens.ts the build runs
  renderOpts,     \* the options the orchestrator passes to renderToken
  quickInfoMap,   \* the hover side map, as entries in insertion order
  tokenIdCounter, \* tokenIdCounter.value
  calls,          \* the rendering calls made so far, with what they returned
  linkArgs,       \* the arguments of a computeLink call
  href,           \* what the call returned
  highlighter,    \* tokens.ts: the module's highlighter (0 is null)
  marked,         \* prose.ts: the module's marked (0 is null)
  initCalls,      \* the calls of initHighlighter / initMarked and where they are
  created,        \* how often each module has called createHighlighter
  stored,         \* how often each module has assigned its instance
  fileOrder,      \* generateHtmlMulti: the keys of `files`, in iteration order
  buildOptions,   \* its options: includeExternals, skipIndex
  serviceState,   \* what the language service can answer
  fileIdx,        \* the file the loop over `files` is at
  layerIdx,       \* the layer the loop over `layers` is at
  body,           \* the blocks of the current file's body
  allDefinitions, \* the definition registry, as entries in insertion order
  externalFiles,  \* the external-file set
  results,        \* the output map, as entries in insertion order
  processed,      \* the tokens renderCodeBlock has built so far
  registrations,  \* the keys of the definitions.set calls made so far
  navigationTree, \* generateIndex: what service.getNavigationTree returned
  symbolHtml,     \* what renderSymbolTree returned for it
  indexPc,        \* whether renderSymbolTree has been called
  externalsArg,   \* processExternals: its argument externalFiles
  references,     \* the file each external file refers to, if any
  onDisk,         \* the files existsSync finds
  toProcess,      \* processExternals: toProcess
  batch,          \* the files of the batch the for loop has still to visit
  handled,        \* the files the for loop has passed `processed.add`, in order
  allExternals,   \* the keys of allExternals
  skipLog,        \* the files logged as skipped
  buildRuns,      \* the file sets generateHtmlMulti was called with
  discovered,     \* result.externalFiles of that call
  writtenFiles,   \* the files whose document was written
  extPc,          \* where processExternals is
  srcFiles,       \* startServer: the source directory, file by file
  fileCache,      \* fileCache, as entries in insertion order
  pendingChanges, \* pendingChanges
  debounceTimer,  \* debounceTimer (0 is null)
  timers,         \* the timers set and neither cleared nor fired
  timerCount,     \* the setTimeout calls made so far
  rebuilds,       \* the calls of regenerateFiles and where they are
  outputDocs,     \* the output directory, as entries
  events,         \* the watch events that passed every test of the callback
  lastWatch,      \* the last run of the watch callback
  watchCount,     \* the runs of the watch callback
  edits           \* the changes made to the source directory

extractVars == <<source, pc, layers, masked, remasked>>

tokenVars == <<tokensCopy, renderOpts, quickInfoMap, tokenIdCounter, calls>>

linkVars == <<linkArgs, href>>

initVars == <<highlighter, marked, initCalls, created, stored>>

\* the state of the operations added after the extractor and the renderer
buildVars ==
  <<fileOrder, buildOptions, serviceState, fileIdx, layerIdx, body,
    allDefinitions, externalFiles, results, processed, registrations>>

indexVars == <<navigationTree, symbolHtml, indexPc>>

externVars ==
  <<externalsArg, references, onDisk, toProcess, batch, handled, allExternals,
    skipLog, buildRuns, discovered, writtenFiles, extPc>>

serverVars ==
  <<srcFiles, fileCache, pendingChanges, debounceTimer, timers, timerCount,
    rebuilds, outputDocs, events, lastWatch, watchCount, edits>>

restVars == <<indexVars, externVars, serverVars>>

laterVars == <<linkVars, initVars, buildVars, restVars>>

vars == <<extractVars, tokenVars, laterVars>>

NoLinkState ==
  /\ linkArgs = <<>>
  /\ href = <<>>

NoInitState ==
  /\ highlighter = 0
  /\ marked = 0
  /\ initCalls = <<>>
  /\ created = [m \in {"tokens", "prose"} |-> 0]
  /\ stored = [m \in {"tokens", "prose"} |-> 0]

NoBuildState ==
  /\ fileOrder = <<>>
  /\ buildOptions = [includeExternals |-> FALSE, skipIndex |-> FALSE]
  /\ serviceState = "ok"
  /\ fileIdx = 1
  /\ layerIdx = 1
  /\ body = <<>>
  /\ allDefinitions = <<>>
  /\ externalFiles = {}
  /\ results = <<>>
  /\ processed = <<>>
  /\ registrations = <<>>

NoIndexState ==
  /\ navigationTree = <<>>
  /\ symbolHtml = <<>>
  /\ indexPc = "idle"

NoExternState ==
  /\ externalsArg = {}
  /\ references = <<>>
  /\ onDisk = {}
  /\ toProcess = {}
  /\ batch = {}
  /\ handled = <<>>
  /\ allExternals = {}
  /\ skipLog = {}
  /\ buildRuns = <<>>
  /\ discovered = {}
  /\ writtenFiles = {}
  /\ extPc = "idle"

NoServerState ==
  /\ srcFiles = <<>>
  /\ fileCache = <<>>
  /\ pendingChanges = {}
  /\ debounceTimer = 0
  /\ timers = {}
  /\ timerCount = 0
  /\ rebuilds = <<>>
  /\ outputDocs = <<>>
  /\ events = <<>>
  /\ lastWatch = <<>>
  /\ watchCount = 0
  /\ edits = 0

NoRestState == NoIndexState /\ NoExternState /\ NoServerState

NoLaterState == NoLinkState /\ NoInitState /\ NoBuildState /\ NoRestState

\* ------------------------------------------------------------------------
\* The sources the extractor is run on
\* ------------------------------------------------------------------------

\* every text of at most n characters
Texts(n) == UNION {[1..k -> Chars] : k \in 0..n}

\* lines as they occur in literate sources: blank, white space, code,
\* an ordinary comment, a bare marker, a marker and one space, prose,
\* indented prose with two spaces after the marker
LineShapes ==
  { <<>>,
    <<" ">>,
    <<"a">>,
    <<"/", "/", "a">>,
    <<"/", "/", "/">>,
    <<"/", "/", "/", " ">>,
    <<"/", "/", "/", " ", "b">>,
    <<" ", "/", "/", "/", " ", " ", "c">> }

LineTexts(n) == UNION {{join(ls) : ls \in [1..k -> LineShapes]} : k \in 1..n}

Sources == Texts(MaxLen) \cup LineTexts(MaxLines)

\* ------------------------------------------------------------------------
\* The extractor's operations
\* ------------------------------------------------------------------------

\* the options of a single-file build: generateHtml passes the side map
\* and the counter and nothing else
SingleFileOpts ==
  [hasKnownFiles |-> FALSE, knownFiles |-> {}, hasComputeLink |-> FALSE,
   includeExternals |-> FALSE, projectRoot |-> <<>>]

NoTokenState ==
  /\ tokensCopy = "literate"
  /\ renderOpts = SingleFileOpts
  /\ quickInfoMap = <<>>
  /\ tokenIdCounter = 0
  /\ calls = <<>>

InitExtract ==
  /\ source \in Sources
  /\ pc = "start"
  /\ layers = <<>>
  /\ masked = <<>>
  /\ remasked = <<>>
  /\ NoTokenState
  /\ NoLaterState

\* const layers = extractLayers(source)
ExtractLayers ==
  /\ pc = "start"
  /\ layers' = extractLayers(source)
  /\ pc' = "extracted"
  /\ UNCHANGED <<source, masked, remasked, tokenVars, laterVars>>

\* const code = illiterate(source)
Illiterate ==
  /\ pc = "start"
  /\ masked' = illiterate(source)
  /\ pc' = "masked"
  /\ UNCHANGED <<source, layers, remasked, tokenVars, laterVars>>

\* illiterate applied to its own result
IlliterateAgain ==
  /\ pc = "masked"
  /\ remasked' = illiterate(masked)
  /\ pc' = "remasked"
  /\ UNCHANGED <<source, layers, masked, tokenVars, laterVars>>

NextExtract == ExtractLayers \/ Illiterate \/ IlliterateAgain

SpecExtract == InitExtract /\ [][NextExtract]_vars

\* ------------------------------------------------------------------------
\* The files and tokens the renderer is run on
\* ------------------------------------------------------------------------

\* the number of rendering calls of a run
MaxCalls == 2

ProjectRoot == <<"/", "p">>
\* /p/a.ts
FileA == <<"/", "p", "/", "a", ".", "t", "s">>
\* /p/lib-1/b_c.ts, one directory down
FileB == <<"/", "p", "/", "l", "i", "b", "-", "1", "/", "b", "_", "c", ".", "t", "s">>
\* /n/x.d.ts, a declaration file outside the project
FileX == <<"/", "n", "/", "x", ".", "d", ".", "t", "s">>

KnownFiles == {FileA, FileB}
AllFiles == {FileA, FileB, FileX}

\* the offsets at which the known files define a symbol
DefOffsets == {0, 12}
\* the offsets of the tokens that are not definition sites
RefOffsets == {30}

DQ == "\""

HoverTexts == {<<>>, <<"f", "(", ")", ":", " ", "T">>}

Token(start, text, classes, definitionId, definitionFile, isDefinition, quickInfo) ==
  [start |-> start, length |-> Len(text), text |-> text, classes |-> classes,
   definitionId |-> definitionId, definitionFile |-> definitionFile,
   isDefinition |-> isDefinition, quickInfo |-> quickInfo]

\* the tokens renderCodeBlock can build in file `filename`: a token that is
\* not linkable, a linkable token without a definition, a definition site
\* (the definition is the token's own file and start), a reference, and the
\* path string of an import of another file
TokensOf(filename) ==
  {Token(n, <<"<">>, <<"punctuation">>, <<>>, <<>>, FALSE, <<>>) :
     n \in RefOffsets}
  \cup {Token(n, <<"f">>, <<"identifier">>, <<>>, <<>>, FALSE, q) :
          n \in RefOffsets, q \in HoverTexts}
  \cup {Token(n, <<"f">>, <<"identifier", "function">>,
              definitionKey(filename, n), filename, TRUE, q) :
          n \in DefOffsets, q \in HoverTexts}
  \cup {Token(n, <<"f">>, <<"identifier", "function">>,
              definitionKey(file, 12), file, FALSE, q) :
          n \in RefOffsets, file \in AllFiles, q \in HoverTexts}
  \cup {Token(n, <<DQ, "x", DQ>>, <<"string">>,
              definitionKey(file, 0), file, FALSE, <<>>) :
          n \in RefOffsets, file \in AllFiles \ {filename}}

\* what generateHtmlMulti passes: the file map, its link function and the
\* caller's includeExternals
MultiFileOpts(includeExternals) ==
  [hasKnownFiles |-> TRUE, knownFiles |-> KnownFiles, hasComputeLink |-> TRUE,
   includeExternals |-> includeExternals, projectRoot |-> ProjectRoot]

\* the options of one renderToken call: the build's, with the side map and
\* the counter as they are now
CallOpts ==
  [hasKnownFiles |-> renderOpts.hasKnownFiles,
   knownFiles |-> renderOpts.knownFiles,
   hasComputeLink |-> renderOpts.hasComputeLink,
   includeExternals |-> renderOpts.includeExternals,
   projectRoot |-> renderOpts.projectRoot,
   hasQuickInfoMap |-> TRUE, quickInfoMap |-> quickInfoMap,
   hasTokenIdCounter |-> TRUE, tokenIdCounter |-> tokenIdCounter]

\* ------------------------------------------------------------------------
\* The renderer's operations
\* ------------------------------------------------------------------------

InitToken ==
  /\ tokensCopy \in {"literate", "plain"}
  /\ renderOpts \in {SingleFileOpts, MultiFileOpts(FALSE), MultiFileOpts(TRUE)}
  /\ quickInfoMap = <<>>
  /\ tokenIdCounter = 0
  /\ calls = <<>>
  /\ source = <<>>
  /\ pc = "render"
  /\ layers = <<>>
  /\ masked = <<>>
  /\ remasked = <<>>
  /\ NoLaterState

\* an exception thrown by renderToken leaves renderCodeBlock and the build
Aborted ==
  \E i \in 1..Len(calls) : calls[i].kind = "token" /\ calls[i].out.kind = "throw"

\* result += renderToken(token, filename, {...})
RenderToken(filename, token) ==
  /\ pc = "render"
  /\ Len(calls) < MaxCalls
  /\ ~Aborted
  /\ LET out == IF tokensCopy = "literate"
                  THEN renderToken(token, filename, CallOpts)
                  ELSE renderTokenPlain(token, filename, CallOpts)
     IN  calls' = Append(calls, [kind |-> "token", file |-> filename,
                                 token |-> token, out |-> out])
  /\ quickInfoMap' = quickInfoAfter(token, CallOpts)
  /\ tokenIdCounter' = counterAfter(token, CallOpts)
  /\ UNCHANGED <<tokensCopy, renderOpts, extractVars, laterVars>>

\* renderSymbolChildren writes the link of an outline item whose name starts
\* at `start` of `filename`
RenderIndexEntry(filename, start) ==
  /\ pc = "render"
  /\ Len(calls) < MaxCalls
  /\ ~Aborted
  /\ renderOpts.hasKnownFiles
  /\ calls' = Append(calls, [kind |-> "index", file |-> filename,
                             start |-> start,
                             anchor |-> indexAnchor(filename, start)])
  /\ UNCHANGED <<tokensCopy, renderOpts, quickInfoMap, tokenIdCounter, extractVars,
               laterVars>>

NextToken ==
  \/ \E filename \in KnownFiles : \E token \in TokensOf(filename) :
       RenderToken(filename, token)
  \/ \E filename \in KnownFiles : \E start \in DefOffsets :
       RenderIndexEntry(filename, start)

SpecToken == InitToken /\ [][NextToken]_vars

\* ------------------------------------------------------------------------
\* The lines and line runs of a text, read off its characters (used to
\* state the properties below, not by the operations above)
\* ------------------------------------------------------------------------

RECURSIVE SumOver(_, _)
\* the sum of f[x] over the finite set S
SumOver(f, S) ==
  IF S = {} THEN 0
  ELSE LET x == CHOOSE y \in S : TRUE IN f[x] + SumOver(f, S \ {x})

Min(S) == CHOOSE x \in S : \A y \in S : x <= y

\* the positions of the newlines of s
NewlineAt(s) == {i \in 1..Len(s) : s[i] = NL}

\* the 0-based offsets at which a line of s starts
LineStarts(s) == {0} \cup NewlineAt(s)

\* the text of the line of s that starts at offset o, without its newline
LineAt(s, o) ==
  SubSeq(s, o + 1, Min({j \in NewlineAt(s) : j > o} \cup {Len(s) + 1}) - 1)

\* the line that starts at offset o is the last line of s
IsLastLine(s, o) == \A j \in NewlineAt(s) : j <= o

\* the length of the line that starts at o, its newline included
FullLength(s, o) == Len(LineAt(s, o)) + (IF IsLastLine(s, o) THEN 0 ELSE 1)

\* the number of white-space characters a line begins with
Indent(line) ==
  Min({k \in 0..Len(line) : k = Len(line) \/ line[k + 1] \notin WhiteSpace})

\* a prose line: '///' right after the leading white space
ProseLine(line) ==
  LET k == Indent(line)
  IN  /\ k + 3 <= Len(line)
      /\ \A j \in 1..3 : line[k + j] = "/"

BlankLine(line) == \A j \in 1..Len(line) : line[j] \in WhiteSpace

\* what a prose line adds to its layer: the text after the indentation,
\* the marker and at most one space
ProseText(line) ==
  LET k == Indent(line) + 3
  IN  IF k < Len(line) /\ line[k + 1] = " "
        THEN SubSeq(line, k + 2, Len(line))
        ELSE SubSeq(line, k + 1, Len(line))

RoleAt(s, o) == IF ProseLine(LineAt(s, o)) THEN "prose" ELSE "code"

\* the start of the line before the line that starts at o > 0
PreviousLine(s, o) ==
  CHOOSE p \in LineStarts(s) :
    p < o /\ \A j \in NewlineAt(s) : j < o => j <= p

\* the first line of a run: no line before it, or one of the other role
RunStarts(s) ==
  {o \in LineStarts(s) :
     o = 0 \/ RoleAt(s, PreviousLine(s, o)) # RoleAt(s, o)}

\* the offset just after the run that starts at o; rs is RunStarts(s)
RunEnd(rs, s, o) == Min({r \in rs : r > o} \cup {Len(s)})

\* the line starts of the run that starts at o
RunLines(rs, s, o) ==
  {p \in LineStarts(s) : o <= p /\ (p < RunEnd(rs, s, o) \/ p = o)}

\* the run that starts at o gives its layer no character at all
EmptyRun(s, o) ==
  /\ IsLastLine(s, o)
  /\ IF RoleAt(s, o) = "prose"
       THEN ProseText(LineAt(s, o)) = <<>>
       ELSE LineAt(s, o) = <<>>

BlankRun(rs, s, o) ==
  /\ RoleAt(s, o) = "code"
  /\ ~EmptyRun(s, o)
  /\ BlankLine(SubSeq(s, o + 1, RunEnd(rs, s, o)))

\* a blank run lies between two prose runs that have content
Between(rs, s, o) ==
  /\ o > 0
  /\ RunEnd(rs, s, o) < Len(s)
  /\ ~EmptyRun(s, RunEnd(rs, s, o))

\* the runs for which extractLayers returns nothing
DroppedRun(rs, s, o) ==
  EmptyRun(s, o) \/ (BlankRun(rs, s, o) /\ ~Between(rs, s, o))

DroppedLength(s) ==
  LET rs == RunStarts(s)
  IN  SumOver([o \in rs |-> RunEnd(rs, s, o) - o],
              {o \in rs : DroppedRun(rs, s, o)})

TotalLength(ls) ==
  SumOver([i \in 1..Len(ls) |-> ls[i].originalLength], 1..Len(ls))

\* layer L covers offset o
Covers(L, o) == L.offset <= o /\ o < L.offset + L.originalLength

\* ------------------------------------------------------------------------
\* C1: the sum of originalLength over the layers extractLayers returns
\* equals the length of the source, for every source.
\* ------------------------------------------------------------------------

C2_OffsetsChain ==
  pc = "extracted" =>
    \A i \in 1..(Len(layers) - 1) :
      layers[i + 1].offset = layers[i].offset + layers[i].originalLength

\* a blank run was absorbed into a prose layer that another layer follows
C2_Witness ==
  /\ pc = "extracted"
  /\ \E i \in 1..(Len(layers) - 1) :
       /\ layers[i].role = "prose"
       /\ LET rs == RunStarts(source)
          IN  \E o \in rs :
                /\ BlankRun(rs, source, o)
                /\ Between(rs, source, o)
                /\ Covers(layers[i], o)

\* the offset at which the line holding position i (1-based) starts
LineStartOf(s, i) ==
  CHOOSE o \in LineStarts(s) :
    o < i /\ \A p \in LineStarts(s) : p < i => p <= o

\* ------------------------------------------------------------------------
\* C3: illiterate(source) has the length of source and a newline at exactly
\* the positions where source has one; every character of a prose line is
\* replaced by a space (the whole line, indentation included) and every
\* other line is unchanged.
\* ------------------------------------------------------------------------

C3_IlliterateKeepsPositions ==
  pc = "masked" =>
    /\ Len(masked) = Len(source)
    /\ \A i \in 1..Len(source) :
         /\ (masked[i] = NL) <=> (source[i] = NL)
         /\ source[i] # NL =>
              masked[i] =
                IF ProseLine(LineAt(source, LineStartOf(source, i)))
                  THEN " "
                  ELSE source[i]

\* an indented prose line with text, next to a code line
C3_Witness ==
  /\ pc = "masked"
  /\ \E o \in LineStarts(source) :
       /\ ProseLine(LineAt(source, o))
       /\ Indent(LineAt(source, o)) > 0
       /\ ProseText(LineAt(source, o)) # <<>>
  /\ \E o \in LineStarts(source) :
       ~ProseLine(LineAt(source, o)) /\ ~BlankLine(LineAt(source, o))

\* ------------------------------------------------------------------------
\* C4: illiterate is idempotent: illiterate(illiterate(source)) equals
\* illiterate(source).
\* ------------------------------------------------------------------------

C4_IlliterateIdempotent ==
  pc = "remasked" => remasked = masked

\* the first application changed the text
C4_Witness ==
  /\ pc = "remasked"
  /\ masked # source
  /\ \E i \in 1..Len(masked) : masked[i] = "/"

\* ------------------------------------------------------------------------
\* C5: two runs of prose lines separated only by white-space-only lines
\* come back as one prose layer that covers both runs and the separator;
\* its originalLength is the sum of the three lengths and its content is
\* the first run's content, one newline per separating line, then the
\* second run's content.
\* ------------------------------------------------------------------------

\* the content a run of prose lines gives: the prose texts, each followed
\* by a newline unless the line is the last line of the source
RECURSIVE ProseRunContent(_, _)
ProseRunContent(s, o) ==
  IF o >= Len(s) + 1 \/ o \notin LineStarts(s) \/ RoleAt(s, o) # "prose"
    THEN <<>>
  ELSE IF IsLastLine(s, o) THEN ProseText(LineAt(s, o))
  ELSE ProseText(LineAt(s, o)) \o <<NL>>
         \o ProseRunContent(s, o + FullLength(s, o))

\* o1 starts a prose run, a blank run follows it and a prose run follows
\* that one; rs is RunStarts(s)
ProseBlankProse(rs, s, o1) ==
  LET o2 == RunEnd(rs, s, o1)
      o3 == RunEnd(rs, s, o2)
  IN  /\ RoleAt(s, o1) = "prose"
      /\ o2 < Len(s)
      /\ BlankRun(rs, s, o2)
      /\ o3 < Len(s)
      /\ RoleAt(s, o3) = "prose"

\* the source is the three runs and nothing else but a final newline
OnlyThreeRuns(rs, s, o1) ==
  LET o3 == RunEnd(rs, s, RunEnd(rs, s, o1))
  IN  /\ ProseBlankProse(rs, s, o1)
      /\ o1 = 0
      /\ \A r \in rs : r > o3 => (r = Len(s) /\ LineAt(s, r) = <<>>)

MergedLayer(rs, s, o1) ==
  LET o2 == RunEnd(rs, s, o1)
      o3 == RunEnd(rs, s, o2)
  IN  [role |-> "prose",
       offset |-> o1,
       originalLength |-> (o2 - o1) + (o3 - o2) + (RunEnd(rs, s, o3) - o3),
       content |-> ProseRunContent(s, o1)
                     \o repeat(NL, Cardinality(RunLines(rs, s, o2)))
                     \o ProseRunContent(s, o3)]

\* one prose layer reaches from o1 to the end of the second prose run
CoveredByOneProseLayer(rs, s, o1) ==
  \E i \in 1..Len(layers) :
    /\ layers[i].role = "prose"
    /\ layers[i].offset <= o1
    /\ layers[i].offset + layers[i].originalLength
         >= RunEnd(rs, s, RunEnd(rs, s, RunEnd(rs, s, o1)))

NoProseLine(s) == \A o \in LineStarts(s) : ~ProseLine(LineAt(s, o))

WholeSourceAsCode(s) ==
  <<[role |-> "code", offset |-> 0, originalLength |-> Len(s), content |-> s]>>

AllProseLines(s) == \A o \in LineStarts(s) : ProseLine(LineAt(s, o))

C7_ProseLinesAndTheirText ==
  pc = "extracted" =>
    /\ \A o \in LineStarts(source) :
         LET line == LineAt(source, o)
         IN  /\ ProseLine(line) =>
                  \A i \in 1..Len(layers) :
                    Covers(layers[i], o) => layers[i].role = "prose"
             /\ (~ProseLine(line) /\ ~BlankLine(line)) =>
                  \E i \in 1..Len(layers) :
                    Covers(layers[i], o) /\ layers[i].role = "code"
    /\ AllProseLines(source) =>
         IF ProseRunContent(source, 0) = <<>>
           THEN layers = <<>>
           ELSE layers = <<[role |-> "prose", offset |-> 0,
                            originalLength |-> Len(source),
                            content |-> ProseRunContent(source, 0)]>>

\* an indented prose line with two spaces after the marker, kept as one
\* space and the text, in a prose layer
C7_Witness ==
  /\ pc = "extracted"
  /\ AllProseLines(source)
  /\ \E o \in LineStarts(source) :
       /\ Indent(LineAt(source, o)) > 0
       /\ startsWith(ProseText(LineAt(source, o)), <<" ">>)
       /\ Len(trim(ProseText(LineAt(source, o)))) > 0
  /\ Len(layers) = 1
  /\ layers[1].role = "prose"

\* ------------------------------------------------------------------------
\* C8: a definition token and a reference token with the same definition
\* key get the same anchor: the definition's id is 'def-' + sanitizeId(key)
\* and the reference's href ends in '#' + that id, whether the reference
\* is in the definition's file or in another file.
\* ------------------------------------------------------------------------

TokenCalls == {i \in 1..Len(calls) : calls[i].kind = "token"}

IsLinkTo(out, anchor) ==
  /\ out.kind = "element"
  /\ out.tag = "a"
  /\ "href" \in DOMAIN out.attrs
  /\ endsWith(out.attrs.href, <<"#">> \o anchor)

C8_SameAnchorForDefinitionAndReference ==
  \A i, j \in TokenCalls :
    ( /\ calls[i].token.isDefinition
      /\ isReference(calls[j].token)
      /\ calls[j].token.definitionId = calls[i].token.definitionId )
    => /\ calls[i].out.kind = "element"
       /\ calls[i].out.attrs.id = DefPrefix \o sanitizeId(calls[i].token.definitionId)
       /\ IsLinkTo(calls[j].out, calls[i].out.attrs.id)

\* ------------------------------------------------------------------------
\* C9: the anchor the index builder writes for a symbol defined at an
\* offset of a file equals, character for character, the id renderToken
\* gives the definition token with the key file:offset.
\* ------------------------------------------------------------------------

C9_IndexAnchorIsDefinitionId ==
  \A i, j \in 1..Len(calls) :
    ( /\ calls[i].kind = "index"
      /\ calls[j].kind = "token"
      /\ calls[j].token.isDefinition
      /\ calls[j].token.definitionId = definitionKey(calls[i].file, calls[i].start) )
    => /\ calls[j].out.kind = "element"
       /\ "id" \in DOMAIN calls[j].out.attrs
       /\ calls[i].anchor = calls[j].out.attrs.id

\* the index entry and the definition token of offset 12 of the file in a
\* subdirectory, whose name holds '/', '-', '_' and '.'
C9_Witness ==
  \E i, j \in 1..Len(calls) :
    /\ calls[i].kind = "index"
    /\ calls[i].file = FileB
    /\ calls[i].start = 12
    /\ calls[j].kind = "token"
    /\ calls[j].token.isDefinition
    /\ calls[j].token.definitionId = definitionKey(FileB, 12)
    /\ calls[i].anchor = calls[j].out.attrs.id

\* ------------------------------------------------------------------------
\* C10: with a known file set and external inclusion disabled, a reference
\* token whose definition file is not a known file is rendered as a span
\* with the token's classes and no href, never as a link.
\* ------------------------------------------------------------------------

C10_ExternalReferenceIsSpan ==
  \A i \in TokenCalls :
    ( /\ renderOpts.hasKnownFiles
      /\ ~renderOpts.includeExternals
      /\ isReference(calls[i].token)
      /\ calls[i].token.definitionFile \notin renderOpts.knownFiles )
    => /\ calls[i].out.kind = "element"
       /\ calls[i].out.tag = "span"
       /\ "href" \notin DOMAIN calls[i].out.attrs
       /\ calls[i].out.attrs.class = classAttr(calls[i].token)

\* a reference into the outside file, with hover text, rendered by either
\* copy with externals disabled
C10_Witness ==
  \E i \in TokenCalls :
    /\ renderOpts.hasKnownFiles
    /\ ~renderOpts.includeExternals
    /\ isReference(calls[i].token)
    /\ calls[i].token.definitionFile = FileX
    /\ calls[i].token.quickInfo # <<>>
    /\ calls[i].out.kind = "element"
    /\ calls[i].out.tag = "span"

\* ------------------------------------------------------------------------
\* Links between output documents (computeLink of generateHtmlMulti, and
\* toOutputPath of src/src/cli.ts, which decides where a document is written)
\* ------------------------------------------------------------------------

RECURSIVE normalizeFrom(_, _)
\* path normalisation: a ".." segment takes back the segment before it
normalizeFrom(done, gs) ==
  IF gs = <<>> THEN done
  ELSE IF Head(gs) = <<".", ".">> /\ done # <<>> /\ Last(done) # <<".", ".">>
    THEN normalizeFrom(SubSeq(done, 1, Len(done) - 1), Tail(gs))
  ELSE normalizeFrom(Append(done, Head(gs)), Tail(gs))

\* path.join(a, b), both without a root: the normalised segments, joined
pathJoin(a, b) == joinPath(normalizeFrom(<<>>, segments(a) \o segments(b)))

\* cli.ts: the path, below the output directory, a file's document is
\* written to
toOutputPath(file, projectRoot, outputDir) ==
  pathJoin(outputDir, toHtmlPath(stripDotDot(relative(projectRoot, file))))

OutputDir == <<"o", "u", "t">>

\* /p/lib-1/s/e.ts, two directories down
FileC == <<"/", "p", "/", "l", "i", "b", "-", "1", "/", "s", "/", "e", ".", "t", "s">>
\* /p/lib-1/d.ts, beside FileB
FileD == <<"/", "p", "/", "l", "i", "b", "-", "1", "/", "d", ".", "t", "s">>
\* /p/src/a.ts, the name of FileA in another directory
FileE == <<"/", "p", "/", "s", "r", "c", "/", "a", ".", "t", "s">>
\* /p/g.d.ts, a declaration file of the project
FileG == <<"/", "p", "/", "g", ".", "d", ".", "t", "s">>

\* files below the project root, at three depths
LinkFiles == {FileA, FileB, FileC, FileD, FileE, FileG}

LinkAnchors == {defAnchor(definitionKey(FileA, 12)), <<"t", "0">>, <<>>}

InitLink ==
  /\ linkArgs \in [fromFile : LinkFiles, toFile : LinkFiles, anchor : LinkAnchors]
  /\ href = <<>>
  /\ pc = "link"
  /\ source = <<>>
  /\ layers = <<>>
  /\ masked = <<>>
  /\ remasked = <<>>
  /\ NoTokenState
  /\ NoInitState
  /\ NoBuildState
  /\ NoRestState

\* href = computeLink(currentFile, token.definitionFile, anchor)
ComputeLink ==
  /\ pc = "link"
  /\ href' = computeLink(ProjectRoot, linkArgs.fromFile, linkArgs.toFile,
                         linkArgs.anchor)
  /\ pc' = "linked"
  /\ UNCHANGED <<linkArgs, source, layers, masked, remasked, tokenVars, initVars,
               buildVars, restVars>>

NextLink == ComputeLink

SpecLink == InitLink /\ [][NextLink]_vars

\* ---- reading a link, as whoever follows it does -------------------------

\* the position of the '#' that starts the fragment
HashAt(h) == CHOOSE i \in 1..Len(h) : h[i] = "#" /\ \A j \in 1..(i - 1) : h[j] # "#"

PathPart(h) == SubSeq(h, 1, HashAt(h) - 1)

Fragment(h) == SubSeq(h, HashAt(h) + 1, Len(h))

\* the directory a document lies in
DirectoryOf(doc) ==
  LET g == segments(doc) IN joinPath(SubSeq(g, 1, Len(g) - 1))

\* the document a relative path leads to from a directory
ResolveFrom(dir, rel) == joinPath(normalizeFrom(<<>>, segments(dir) \o segments(rel)))

DocumentOf(file) == toOutputPath(file, ProjectRoot, OutputDir)

\* ------------------------------------------------------------------------
\* C14: for files below the project root, the path part of
\* computeLink(fromFile, toFile, anchor), resolved against the directory of
\* fromFile's output document, is toFile's output document, and the
\* fragment is the anchor; so files at different depths get different
\* hrefs to the same document and anchor.
\* ------------------------------------------------------------------------

C14_LinkResolvesToTargetDocument ==
  pc = "linked" =>
    /\ \E i \in 1..Len(href) : href[i] = "#"
    /\ ResolveFrom(DirectoryOf(DocumentOf(linkArgs.fromFile)), PathPart(href))
         = DocumentOf(linkArgs.toFile)
    /\ Fragment(href) = linkArgs.anchor
    /\ \A other \in LinkFiles :
         LET h == computeLink(ProjectRoot, other, linkArgs.toFile, linkArgs.anchor)
         IN  /\ ResolveFrom(DirectoryOf(DocumentOf(other)), PathPart(h))
                  = DocumentOf(linkArgs.toFile)
             /\ Len(segments(DirectoryOf(DocumentOf(other))))
                  # Len(segments(DirectoryOf(DocumentOf(linkArgs.fromFile))))
                => h # href

\* a link from two directories down to a definition in the root directory
C14_Witness ==
  /\ pc = "linked"
  /\ linkArgs.fromFile = FileC
  /\ linkArgs.toFile = FileA
  /\ linkArgs.anchor = defAnchor(definitionKey(FileA, 12))
  /\ PathPart(href) = <<".", ".", "/", ".", ".", "/", "a", ".", "h", "t", "m", "l">>
  /\ Fragment(href) = linkArgs.anchor

\* ------------------------------------------------------------------------
\* Lazy initialisation (initHighlighter of tokens.ts, initMarked of prose.ts)
\* ------------------------------------------------------------------------

\* the number of calls of the two functions in a run
MaxInitCalls == 3

InitFunctions == {"initHighlighter", "initMarked"}

\* the module a function belongs to
moduleOf(fn) == IF fn = "initHighlighter" THEN "tokens" ELSE "prose"

InitInit ==
  /\ highlighter = 0
  /\ marked = 0
  /\ initCalls = <<>>
  /\ created = [m \in {"tokens", "prose"} |-> 0]
  /\ stored = [m \in {"tokens", "prose"} |-> 0]
  /\ pc = "init"
  /\ source = <<>>
  /\ layers = <<>>
  /\ masked = <<>>
  /\ remasked = <<>>
  /\ NoTokenState
  /\ NoLinkState
  /\ NoBuildState
  /\ NoRestState

\* a call runs to its first await: `if (highlighter) return;` and then
\* `await import("shiki")`
CallInitHighlighter ==
  /\ pc = "init"
  /\ Len(initCalls) < MaxInitCalls
  /\ initCalls' = Append(initCalls,
       [fn |-> "initHighlighter",
        at |-> IF highlighter # 0 THEN "returned" ELSE "importing",
        instance |-> 0])
  /\ UNCHANGED <<highlighter, marked, created, stored, extractVars, tokenVars, linkVars,
               buildVars, restVars>>

\* the import has resolved: createHighlighter is called and awaited
ResumeImport(i) ==
  /\ initCalls[i].fn = "initHighlighter"
  /\ initCalls[i].at = "importing"
  /\ created' = [created EXCEPT !["tokens"] = @ + 1]
  /\ initCalls' = [initCalls EXCEPT ![i].at = "creating",
                                    ![i].instance = created["tokens"] + 1]
  /\ UNCHANGED <<highlighter, marked, stored, extractVars, tokenVars, linkVars,
               buildVars, restVars>>

\* a call runs to its first await: `if (marked) return;` and then
\* `await createHighlighter(...)`
CallInitMarked ==
  /\ pc = "init"
  /\ Len(initCalls) < MaxInitCalls
  /\ IF marked # 0
       THEN /\ initCalls' = Append(initCalls,
                 [fn |-> "initMarked", at |-> "returned", instance |-> 0])
            /\ UNCHANGED created
       ELSE /\ created' = [created EXCEPT !["prose"] = @ + 1]
            /\ initCalls' = Append(initCalls,
                 [fn |-> "initMarked", at |-> "creating",
                  instance |-> created["prose"] + 1])
  /\ UNCHANGED <<highlighter, marked, stored, extractVars, tokenVars, linkVars,
               buildVars, restVars>>

\* createHighlighter has resolved: `highlighter = ...`, or
\* `marked = new Marked()` over the highlighter just created
ResumeCreate(i) ==
  /\ initCalls[i].at = "creating"
  /\ IF initCalls[i].fn = "initHighlighter"
       THEN highlighter' = initCalls[i].instance /\ UNCHANGED marked
       ELSE marked' = initCalls[i].instance /\ UNCHANGED highlighter
  /\ stored' = [stored EXCEPT ![moduleOf(initCalls[i].fn)] = @ + 1]
  /\ initCalls' = [initCalls EXCEPT ![i].at = "returned"]
  /\ UNCHANGED <<created, extractVars, tokenVars, linkVars,
               buildVars, restVars>>

NextInit ==
  \/ CallInitHighlighter
  \/ CallInitMarked
  \/ \E i \in 1..Len(initCalls) : ResumeImport(i)
  \/ \E i \in 1..Len(initCalls) : ResumeCreate(i)

SpecInit == InitInit /\ [][NextInit]_vars

\* ------------------------------------------------------------------------
\* C20: over any calls of initHighlighter (and of initMarked), calls that
\* overlap at their awaits included, the highlighter is created at most
\* once and the stored instance, once set, is never assigned again.
\* ------------------------------------------------------------------------

C20_CreatedAndStoredAtMostOnce ==
  \A m \in {"tokens", "prose"} : created[m] <= 1 /\ stored[m] <= 1

\* ------------------------------------------------------------------------
\* A multi-file build: the files, and what the language service says of them
\* ------------------------------------------------------------------------

\* a function and a semicolon; a prose line; a use of the function and a
\* use of a name declared in the outside file
SourceA == <<"f", ";", NL, "/", "/", "/", "p", NL, "f", " ", "x">>
\* a use of the function of FileA, a string that is no import path, and
\* two line ends
SourceB == <<"f", " ", DQ, "s", DQ, NL, NL>>
\* a block comment of three lines, the second of which begins with the
\* prose marker, and after it the definition of g
SourceD == <<"/", "*", NL, "/", "/", "/", NL, "*", "/", "g">>

BuildFiles == {FileA, FileB, FileD}

\* files.get(filename)
sourceOf(filename) ==
  CASE filename = FileA -> SourceA
    [] filename = FileB -> SourceB
    [] filename = FileD -> SourceD

\* the text the service analyses: createMultiFileLanguageService hands it
\* the illiterated sources
serviceText(filename) == illiterate(sourceOf(filename))

HoverText == <<"f", "(", ")", ":", " ", "T">>

\* one classified span, with the service's other answers at its start:
\* the decoded semantic type ("" for none), getDefinitionAtPosition (the
\* empty sequence for none) and the quick info text (empty for none)
Span(start, length, type, semType, defs, info) ==
  [textSpan |-> [start |-> start, length |-> length],
   classificationType |-> type, semType |-> semType, defs |-> defs, info |-> info]

NoDefs == <<>>

Defs(fileName, start) == <<[fileName |-> fileName, textSpan |-> [start |-> start]]>>

\* the spans of a file, in the order of the text
classifications(filename) ==
  CASE filename = FileA ->
         << Span(0, 1, "identifier", "function", Defs(FileA, 0), HoverText),
            Span(1, 1, "punctuation", "", NoDefs, <<>>),
            Span(8, 1, "identifier", "function", Defs(FileA, 0), HoverText),
            Span(10, 1, "identifier", "", Defs(FileX, 5), <<>>) >>
    [] filename = FileB ->
         << Span(0, 1, "identifier", "function", Defs(FileA, 0), HoverText),
            Span(2, 3, "string", "", NoDefs, <<>>) >>
    [] filename = FileD ->
         << Span(0, 9, "comment", "", NoDefs, <<>>),
            Span(9, 1, "identifier", "", Defs(FileD, 9), <<>>) >>

\* service.getSyntacticClassifications(filename, {start, length}): the
\* spans that meet the requested range
getSyntacticClassifications(filename, start, length) ==
  SelectSeq(classifications(filename),
            LAMBDA sp : /\ sp.textSpan.start <= start + length
                        /\ sp.textSpan.start + sp.textSpan.length >= start)

\* tokens.ts: linkableTypes
linkableTypes ==
  {"identifier", "interface name", "class name", "enum name",
   "type parameter name", "parameter name", "module name", "string"}

isLinkable(classificationType) == classificationType \in linkableTypes

\* span.classificationType.toLowerCase().replace(/ /g, "-"), on the
\* classification types of the service
classNameOf(classificationType) ==
  CASE classificationType = "interface name" -> "interface-name"
    [] classificationType = "class name" -> "class-name"
    [] classificationType = "enum name" -> "enum-name"
    [] classificationType = "type parameter name" -> "type-parameter-name"
    [] classificationType = "parameter name" -> "parameter-name"
    [] classificationType = "module name" -> "module-name"
    [] OTHER -> classificationType

\* sourceFile.getLineAndCharacterOfPosition(pos), both counted from 0
getLineAndCharacterOfPosition(text, pos) ==
  LET before == {i \in 1..pos : text[i] = NL}
  IN  [line |-> Cardinality(before),
       character |-> pos - Max(0, IF before = {} THEN 0
                                  ELSE CHOOSE i \in before : \A j \in before : j <= i)]

\* text.slice(from, to), offsets counted from 0
sliceRange(text, from, to) ==
  SubSeq(text, from + 1, IF to < Len(text) THEN to ELSE Len(text))

\* ------------------------------------------------------------------------
\* renderCodeBlock (render.ts)
\* ------------------------------------------------------------------------

\* tokenOf where a token is a definition site whenever its definition is in
\* the file being rendered
tokenOf_anySiteInFile(ctx, span) ==
  LET start == span.textSpan.start
      text == sliceRange(serviceText(ctx.filename), start,
                         start + span.textSpan.length)
      classes == <<classNameOf(span.classificationType)>>
                   \o (IF span.semType # "" THEN <<span.semType>> ELSE <<>>)
      linkable == isLinkable(span.classificationType)
      hasDef == linkable /\ span.defs # <<>>
      def == span.defs[1]
  IN  [start |-> start, length |-> span.textSpan.length, text |-> text,
       classes |-> classes,
       definitionId |-> IF hasDef THEN definitionKey(def.fileName, def.textSpan.start)
                        ELSE <<>>,
       definitionFile |-> IF hasDef THEN def.fileName ELSE <<>>,
       isDefinition |-> /\ hasDef
                        /\ def.fileName = ctx.filename,
       quickInfo |-> IF linkable THEN span.info ELSE <<>>]

\* the token built from one span: lines 75-120
tokenOf(ctx, span) ==
  LET start == span.textSpan.start
      text == sliceRange(serviceText(ctx.filename), start,
                         start + span.textSpan.length)
      classes == <<classNameOf(span.classificationType)>>
                   \o (IF span.semType # "" THEN <<span.semType>> ELSE <<>>)
      linkable == isLinkable(span.classificationType)
      hasDef == linkable /\ span.defs # <<>>
      def == span.defs[1]
  IN  [start |-> start, length |-> span.textSpan.length, text |-> text,
       classes |-> classes,
       definitionId |-> IF hasDef THEN definitionKey(def.fileName, def.textSpan.start)
                        ELSE <<>>,
       definitionFile |-> IF hasDef THEN def.fileName ELSE <<>>,
       isDefinition |-> /\ hasDef
                        /\ def.fileName = ctx.filename
                        /\ def.textSpan.start = start,
       quickInfo |-> IF linkable THEN span.info ELSE <<>>]

\* the value definitions.set stores for a definition site
definitionRecord(ctx, token) ==
  LET pos == getLineAndCharacterOfPosition(serviceText(ctx.filename), token.start)
  IN  [file |-> token.definitionFile, line |-> pos.line + 1,
       column |-> pos.character + 1]

\* addsExternal without the test of ctx.includeExternals
addsExternal_always(ctx, token) ==
  /\ token.definitionFile # <<>>
  /\ ctx.hasExternalFiles
  /\ ctx.hasKnownFiles
  /\ token.definitionFile \notin ctx.knownFiles

\* ctx.externalFiles.add(def.fileName) is reached
addsExternal(ctx, token) ==
  /\ token.definitionFile # <<>>
  /\ ctx.hasExternalFiles
  /\ ctx.hasKnownFiles
  /\ token.definitionFile \notin ctx.knownFiles
  /\ ctx.includeExternals

RECURSIVE collectTokens(_, _, _)
\* the loop over the spans: the tokens, and what it writes to the external
\* set and to the registry on the way
collectTokens(ctx, spans, acc) ==
  IF spans = <<>> THEN acc
  ELSE
    LET token == tokenOf(ctx, Head(spans))
    IN  collectTokens(ctx, Tail(spans),
          [tokens |-> Append(acc.tokens, token),
           externalFiles |->
             IF addsExternal(ctx, token)
               THEN acc.externalFiles \cup {token.definitionFile}
               ELSE acc.externalFiles,
           definitions |->
             IF token.isDefinition
               THEN mapSet(acc.definitions, token.definitionId,
                           definitionRecord(ctx, token))
               ELSE acc.definitions,
           registrations |->
             IF token.isDefinition
               THEN Append(acc.registrations, token.definitionId)
               ELSE acc.registrations])

TextPart(text) == [kind |-> "text", text |-> text]

\* the options renderCodeBlock passes to renderToken
tokenOptions(ctx, st) ==
  [hasKnownFiles |-> ctx.hasKnownFiles, knownFiles |-> ctx.knownFiles,
   hasComputeLink |-> ctx.hasComputeLink, projectRoot |-> ctx.projectRoot,
   includeExternals |-> ctx.includeExternals,
   hasQuickInfoMap |-> TRUE, quickInfoMap |-> st.quickInfoMap,
   hasTokenIdCounter |-> TRUE, tokenIdCounter |-> st.tokenIdCounter]

\* the loop state after renderToken has returned `out` or thrown
afterToken(st, token, parts, opts, out) ==
  [parts |-> IF out.kind = "throw" THEN parts ELSE Append(parts, out),
   pos |-> IF out.kind = "throw" THEN st.pos ELSE token.start + token.length,
   quickInfoMap |-> quickInfoAfter(token, opts),
   tokenIdCounter |-> counterAfter(token, opts),
   threw |-> out.kind = "throw"]

\* result += renderToken(token, filename, {...})
callRenderToken(ctx, st, token, parts, opts) ==
  afterToken(st, token, parts, opts,
             IF ctx.tokensCopy = "literate"
               THEN renderToken(token, ctx.filename, opts)
               ELSE renderTokenPlain(token, ctx.filename, opts))

\* one round of the loop over the sorted tokens
emitToken(ctx, layer, st, token) ==
  IF st.threw THEN st
  ELSE IF token.start < layer.offset
            \/ token.start >= layer.offset + layer.originalLength THEN st
  ELSE callRenderToken(ctx, st, token,
         IF token.start > st.pos
           THEN Append(st.parts,
                  TextPart(escapeHtml(sliceRange(serviceText(ctx.filename),
                                                 st.pos, token.start))))
           ELSE st.parts,
         tokenOptions(ctx, st))

RECURSIVE emitTokens(_, _, _, _)
emitTokens(ctx, layer, st, tokens) ==
  IF tokens = <<>> THEN st
  ELSE emitTokens(ctx, layer, emitToken(ctx, layer, st, Head(tokens)), Tail(tokens))

RECURSIVE trimTrailingNewlines(_)
\* result.replace(/\n+$/, ""): the line ends at the very end of the block,
\* which only text outside an element can hold
trimTrailingNewlines(parts) ==
  IF parts = <<>> \/ Last(parts).kind # "text" THEN parts
  ELSE LET t == Last(parts).text
       IN  IF t = <<>> THEN trimTrailingNewlines(SubSeq(parts, 1, Len(parts) - 1))
           ELSE IF Last(t) = NL
             THEN trimTrailingNewlines(SetLast(parts, TextPart(SubSeq(t, 1, Len(t) - 1))))
           ELSE parts

\* <pre class="code">...</pre>
Pre(parts) == [kind |-> "pre", parts |-> parts]

\* the gap after the last token, the trim, and what the call leaves behind
closeBlock(ctx, layer, collected, emitted) ==
  [html |-> Pre(trimTrailingNewlines(
              IF emitted.pos < layer.offset + layer.originalLength
                THEN Append(emitted.parts,
                       TextPart(escapeHtml(sliceRange(serviceText(ctx.filename),
                                  emitted.pos, layer.offset + layer.originalLength))))
                ELSE emitted.parts)),
   threw |-> emitted.threw,
   tokens |-> collected.tokens, registrations |-> collected.registrations,
   definitions |-> collected.definitions,
   externalFiles |-> collected.externalFiles,
   quickInfoMap |-> emitted.quickInfoMap,
   tokenIdCounter |-> emitted.tokenIdCounter]

\* tokens.sort((a, b) => a.start - b.start) and the loop over the tokens
renderTokens(ctx, layer, collected) ==
  closeBlock(ctx, layer, collected,
    emitTokens(ctx, layer,
      [parts |-> <<>>, pos |-> layer.offset,
       quickInfoMap |-> ctx.quickInfoMap,
       tokenIdCounter |-> ctx.tokenIdCounter, threw |-> FALSE],
      SortSeq(collected.tokens, LAMBDA a, b : a.start < b.start)))

\* renderCodeBlock that returns early only when there is no program
renderCodeBlock_programOnly(ctx, layer) ==
  IF ctx.serviceState = "noProgram"
    THEN [html |-> Pre(<<TextPart(escapeHtml(layer.content))>>), threw |-> FALSE,
          tokens |-> <<>>, registrations |-> <<>>,
          definitions |-> ctx.definitions, externalFiles |-> ctx.externalFiles,
          quickInfoMap |-> ctx.quickInfoMap, tokenIdCounter |-> ctx.tokenIdCounter]
  ELSE
    renderTokens(ctx, layer,
      collectTokens(ctx,
        getSyntacticClassifications(ctx.filename, layer.offset,
                                    layer.originalLength),
        [tokens |-> <<>>, externalFiles |-> ctx.externalFiles,
         definitions |-> ctx.definitions, registrations |-> <<>>]))

\* renderCodeBlock(ctx, layer): the block, or that it threw, and the state
\* of what ctx shares with its caller
renderCodeBlock(ctx, layer) ==
  IF ctx.serviceState = "noProgram"
       \/ (ctx.serviceState = "noSourceFile" /\ ctx.filename = FileB)
    THEN [html |-> Pre(<<TextPart(escapeHtml(layer.content))>>), threw |-> FALSE,
          tokens |-> <<>>, registrations |-> <<>>,
          definitions |-> ctx.definitions, externalFiles |-> ctx.externalFiles,
          quickInfoMap |-> ctx.quickInfoMap, tokenIdCounter |-> ctx.tokenIdCounter]
  ELSE
    renderTokens(ctx, layer,
      collectTokens(ctx,
        getSyntacticClassifications(ctx.filename, layer.offset,
                                    layer.originalLength),
        [tokens |-> <<>>, externalFiles |-> ctx.externalFiles,
         definitions |-> ctx.definitions, registrations |-> <<>>]))

\* ------------------------------------------------------------------------
\* generateHtmlMulti (index.ts)
\* ------------------------------------------------------------------------

\* renderProse(layer.content): the markdown handed to marked, in its
\* <div class="prose">
renderProse(content) == [kind |-> "prose", markdown |-> content]

\* wrapHtml: the title, the body and one template per entry of the side map
wrapHtml(blocks, filename, sideMap) ==
  [kind |-> "document",
   title |-> escapeHtml(Last(splitPath(filename, 1, <<>>))),
   body |-> blocks,
   templates |-> sideMap]

\* generateIndex, which lists the files sorted by their names
generateIndex(fileSet) == [kind |-> "index", files |-> fileSet]

\* projectRoot + "/index.html"
indexKey(projectRoot) ==
  projectRoot \o <<"/", "i", "n", "d", "e", "x", ".", "h", "t", "m", "l">>

\* the keys of `files`
keysOf(order) == {order[i] : i \in 1..Len(order)}

\* the context generateHtmlMulti hands to renderCodeBlock; env is what is
\* fixed for the build, fs what the file loop has reached
contextOf(env, filename, fs) ==
  [filename |-> filename, definitions |-> fs.definitions,
   hasExternalFiles |-> TRUE, externalFiles |-> fs.externalFiles,
   hasKnownFiles |-> TRUE, knownFiles |-> keysOf(env.order),
   hasComputeLink |-> TRUE, projectRoot |-> ProjectRoot,
   includeExternals |-> env.options.includeExternals,
   quickInfoMap |-> fs.quickInfoMap, tokenIdCounter |-> fs.tokenIdCounter,
   serviceState |-> env.serviceState, tokensCopy |-> env.tokensCopy]

\* the file loop's state after a code block r
afterCodeBlock(fs, r) ==
  [body |-> IF r.threw THEN fs.body ELSE Append(fs.body, r.html),
   quickInfoMap |-> r.quickInfoMap,
   tokenIdCounter |-> r.tokenIdCounter,
   definitions |-> r.definitions,
   externalFiles |-> r.externalFiles,
   results |-> fs.results,
   processed |-> fs.processed \o r.tokens,
   registrations |-> fs.registrations \o r.registrations,
   threw |-> r.threw]

\* one round of the loop over the layers of a file
renderLayer(env, filename, fs, layer) ==
  IF layer.role = "code"
    THEN afterCodeBlock(fs, renderCodeBlock(contextOf(env, filename, fs), layer))
    ELSE [fs EXCEPT !.body = Append(@, renderProse(layer.content))]

RECURSIVE renderLayers(_, _, _, _)
renderLayers(env, filename, fs, ls) ==
  IF ls = <<>> \/ fs.threw THEN fs
  ELSE renderLayers(env, filename, renderLayer(env, filename, fs, Head(ls)), Tail(ls))

\* const html = wrapHtml(...); results.set(filename, html)
setResult(filename, done) ==
  IF done.threw THEN done
  ELSE [done EXCEPT !.results =
          mapSet(@, filename, wrapHtml(done.body, filename, done.quickInfoMap))]

\* renderFile with one counter for the whole build
renderFile_sharedCounter(env, filename, fs) ==
  setResult(filename,
    renderLayers(env, filename,
      [fs EXCEPT !.body = <<>>, !.quickInfoMap = <<>>],
      extractLayers(sourceOf(filename))))

\* one round of the loop over the files: fresh side map, counter and body,
\* the layers, and results.set(filename, html)
renderFile(env, filename, fs) ==
  setResult(filename,
    renderLayers(env, filename,
      [fs EXCEPT !.body = <<>>, !.quickInfoMap = <<>>, !.tokenIdCounter = 0],
      extractLayers(sourceOf(filename))))

RECURSIVE renderFiles(_, _, _)
renderFiles(env, fs, order) ==
  IF order = <<>> \/ fs.threw THEN fs
  ELSE renderFiles(env, renderFile(env, Head(order), fs), Tail(order))

\* withIndex that ignores options.skipIndex
withIndex_always(env, fs) ==
  mapSet(fs.results, indexKey(ProjectRoot), generateIndex(keysOf(env.order)))

\* the index, unless it is skipped
withIndex(env, fs) ==
  IF env.options.skipIndex THEN fs.results
  ELSE mapSet(fs.results, indexKey(ProjectRoot), generateIndex(keysOf(env.order)))

NewBuild ==
  [body |-> <<>>, quickInfoMap |-> <<>>, tokenIdCounter |-> 0,
   definitions |-> <<>>, externalFiles |-> {}, results |-> <<>>,
   processed |-> <<>>, registrations |-> <<>>, threw |-> FALSE]

\* return { files: results, definitions: allDefinitions, externalFiles }
returned(env, fs) ==
  IF fs.threw THEN [threw |-> TRUE]
  ELSE [threw |-> FALSE, files |-> withIndex(env, fs),
        definitions |-> fs.definitions, externalFiles |-> fs.externalFiles]

\* generateHtmlMulti(files, options): what it returns, unless it throws
generateHtmlMulti(env) == returned(env, renderFiles(env, NewBuild, env.order))

\* ---- the build, one step at a time --------------------------------------

\* the orders in which a Map of some of the files is iterated
Orders ==
  {o \in UNION {[1..n -> BuildFiles] : n \in 1..Cardinality(BuildFiles)} :
     \A i, j \in 1..Len(o) : i # j => o[i] # o[j]}

\* what is fixed for the build
Env ==
  [order |-> fileOrder, options |-> buildOptions,
   serviceState |-> serviceState, tokensCopy |-> tokensCopy]

\* what the loops have reached
Reached ==
  [body |-> body, quickInfoMap |-> quickInfoMap, tokenIdCounter |-> tokenIdCounter,
   definitions |-> allDefinitions, externalFiles |-> externalFiles,
   results |-> results, processed |-> processed,
   registrations |-> registrations, threw |-> FALSE]

InitBuild ==
  /\ fileOrder \in Orders
  /\ buildOptions \in [includeExternals : BOOLEAN, skipIndex : BOOLEAN]
  /\ serviceState \in {"ok", "noProgram", "noSourceFile"}
  /\ tokensCopy \in {"literate", "plain"}
  /\ renderOpts = [hasKnownFiles |-> TRUE, knownFiles |-> keysOf(fileOrder),
                   hasComputeLink |-> TRUE,
                   includeExternals |-> buildOptions.includeExternals,
                   projectRoot |-> ProjectRoot]
  /\ pc = "file"
  /\ fileIdx = 1
  /\ layerIdx = 1
  /\ body = <<>>
  /\ allDefinitions = <<>>
  /\ externalFiles = {}
  /\ results = <<>>
  /\ processed = <<>>
  /\ registrations = <<>>
  /\ quickInfoMap = <<>>
  /\ tokenIdCounter = 0
  /\ calls = <<>>
  /\ source = <<>>
  /\ layers = <<>>
  /\ masked = <<>>
  /\ remasked = <<>>
  /\ NoLinkState
  /\ NoInitState
  /\ NoRestState

buildInputs == <<fileOrder, buildOptions, serviceState, tokensCopy, renderOpts>>

\* for (const [filename, source] of files): the layers, a fresh side map
\* and counter
StartFile ==
  /\ pc = "file"
  /\ fileIdx <= Len(fileOrder)
  /\ source' = sourceOf(fileOrder[fileIdx])
  /\ layers' = extractLayers(sourceOf(fileOrder[fileIdx]))
  /\ quickInfoMap' = <<>>
  /\ tokenIdCounter' = 0
  /\ body' = <<>>
  /\ layerIdx' = 1
  /\ pc' = "layers"
  /\ UNCHANGED <<buildInputs, fileIdx, allDefinitions, externalFiles, results,
                 processed, registrations, calls, masked, remasked, linkVars,
                 initVars, restVars>>

\* the layer loop moves on to the state fs, or the build ends in an
\* exception
MoveTo(fs) ==
  /\ body' = fs.body
  /\ quickInfoMap' = fs.quickInfoMap
  /\ tokenIdCounter' = fs.tokenIdCounter
  /\ allDefinitions' = fs.definitions
  /\ externalFiles' = fs.externalFiles
  /\ processed' = fs.processed
  /\ registrations' = fs.registrations
  /\ pc' = IF fs.threw THEN "threw" ELSE "layers"
  /\ layerIdx' = IF fs.threw THEN layerIdx ELSE layerIdx + 1

\* body += renderCodeBlock({...}, layer), or body += await renderProse(...)
RenderLayer ==
  /\ pc = "layers"
  /\ layerIdx <= Len(layers)
  /\ MoveTo(renderLayer(Env, fileOrder[fileIdx], Reached, layers[layerIdx]))
  /\ UNCHANGED <<buildInputs, fileIdx, results, calls, source, layers, masked,
                 remasked, linkVars, initVars, restVars>>

\* const html = wrapHtml(...); results.set(filename, html)
FinishFile ==
  /\ pc = "layers"
  /\ layerIdx > Len(layers)
  /\ results' = mapSet(results, fileOrder[fileIdx],
                       wrapHtml(body, fileOrder[fileIdx], quickInfoMap))
  /\ fileIdx' = fileIdx + 1
  /\ pc' = "file"
  /\ UNCHANGED <<buildInputs, layerIdx, body, quickInfoMap, tokenIdCounter,
                 allDefinitions, externalFiles, processed, registrations, calls,
                 source, layers, masked, remasked, linkVars, initVars, restVars>>

\* the index page, unless skipped, and the return
ReturnBuild ==
  /\ pc = "file"
  /\ fileIdx > Len(fileOrder)
  /\ results' = withIndex(Env, Reached)
  /\ pc' = "returned"
  /\ UNCHANGED <<buildInputs, fileIdx, layerIdx, body, quickInfoMap,
                 tokenIdCounter, allDefinitions, externalFiles, processed,
                 registrations, calls, source, layers, masked, remasked,
                 linkVars, initVars, restVars>>

NextBuild == StartFile \/ RenderLayer \/ FinishFile \/ ReturnBuild

SpecBuild == InitBuild /\ [][NextBuild]_vars

\* ------------------------------------------------------------------------
\* The build: the claims
\* ------------------------------------------------------------------------

\* the definition files, outside the known set, of the linkable tokens
\* processed so far
ExternalDefinitionFiles ==
  {processed[i].definitionFile :
     i \in {j \in 1..Len(processed) :
              /\ processed[j].definitionFile # <<>>
              /\ processed[j].definitionFile \notin keysOf(fileOrder)}}

\* C11: at every point of a multi-file build the external-file set is empty
\* when external inclusion is disabled; when it is enabled the set is exactly
\* the definition files, outside the known file set, of the linkable tokens
\* processed so far, and it never holds a known file.
C11_ExternalFilesExact ==
  /\ externalFiles = IF buildOptions.includeExternals
                       THEN ExternalDefinitionFiles ELSE {}
  /\ externalFiles \cap keysOf(fileOrder) = {}

\* a build with external inclusion has processed a token defined in a known
\* file and one defined outside, and holds the outside file
C11_Witness ==
  /\ buildOptions.includeExternals
  /\ FileX \in externalFiles
  /\ \E i \in 1..Len(processed) : processed[i].definitionFile \in keysOf(fileOrder)

\* a build without external inclusion has processed a token defined outside
\* the known set
C11_WitnessDisabled ==
  /\ ~buildOptions.includeExternals
  /\ ExternalDefinitionFiles # {}

\* the registrations a step adds
NewRegistrations ==
  SubSeq(registrations', Len(registrations) + 1, Len(registrations'))

DocumentAt(file) ==
  results[CHOOSE i \in 1..Len(results) : results[i].key = file].value

\* the elements of the code blocks of a document
ElementsOf(doc) ==
  UNION {{doc.body[i].parts[j] :
            j \in {k \in 1..Len(doc.body[i].parts) :
                     doc.body[i].parts[k].kind = "element"}} :
         i \in {k \in 1..Len(doc.body) : doc.body[k].kind = "pre"}}

\* the anchor of the function f that FileA defines at offset 0
AnchorOfF == defAnchor(definitionKey(FileA, 0))

\* the build of exactly FileA and FileB, with the analysis service at hand,
\* has ended
TwoFileBuildEnded ==
  /\ keysOf(fileOrder) = {FileA, FileB}
  /\ serviceState = "ok"
  /\ pc \in {"returned", "threw"}

\* what the build of FileA and FileB returns about f
TwoFileBuildLinksF ==
  /\ pc = "returned"
  /\ Cardinality({i \in 1..Len(allDefinitions) :
                    allDefinitions[i].key = definitionKey(FileA, 0)}) = 1
  /\ mapHas(results, FileA)
  /\ \E e \in ElementsOf(DocumentAt(FileA)) :
       "id" \in DOMAIN e.attrs /\ e.attrs["id"] = AnchorOfF
  /\ mapHas(results, FileB)
  /\ \E e \in ElementsOf(DocumentAt(FileB)) :
       /\ e.tag = "a"
       /\ "id" \notin DOMAIN e.attrs \/ e.attrs["id"] # AnchorOfF
       /\ "href" \in DOMAIN e.attrs
       /\ endsWith(e.attrs["href"], <<"#">> \o AnchorOfF)

\* C13: a multi-file build of FileA, which defines the function f, and
\* FileB, which refers to it, returns a registry with exactly one entry for f
\* (keyed FileA:0), a document of FileA with a definition element whose id is
\* the anchor of f, and a document of FileB whose reference element has an
\* href ending in '#' and that anchor.
C13_TwoFileBuildLinksReference ==
  TwoFileBuildEnded => TwoFileBuildLinksF

\* with the copy of renderToken that declares `anchor` the two-file build
\* returns what C13 states
C13_HoldsWithDeclaredAnchor ==
  (TwoFileBuildEnded /\ tokensCopy = "plain") => TwoFileBuildLinksF

\* the two-file build has returned with the link in place
C13_ReturnedLinked ==
  TwoFileBuildEnded /\ TwoFileBuildLinksF

\* a Map read as what it holds, whatever the order of insertion
Mapping(m) == {<<m[i].key, m[i].value>> : i \in 1..Len(m)}

\* what a build hands back, as the caller can tell it apart
Outcome(r) ==
  IF r.threw THEN <<"threw">>
  ELSE <<"returned", Mapping(r.files), Mapping(r.definitions), r.externalFiles>>

\* what the build that has ended handed back
ReachedOutcome ==
  IF pc = "threw" THEN <<"threw">>
  ELSE <<"returned", Mapping(results), Mapping(allDefinitions), externalFiles>>

\* the orders over the files of this build
OrdersOfThisBuild == {o \in Orders : keysOf(o) = keysOf(fileOrder)}

\* C15: for a fixed file set and fixed answers of the analysis service,
\* every order in which generateHtmlMulti iterates the files yields the same
\* document for each file, the same final definition registry and the same
\* external-file set as the order the build took.
C15_OrderIndependent ==
  pc \in {"returned", "threw"} =>
    \A o \in OrdersOfThisBuild :
      Outcome(generateHtmlMulti([Env EXCEPT !.order = o])) = ReachedOutcome

\* a build of all three files has returned, and in another order the
\* registry is filled in another order
C15_Witness ==
  /\ pc = "returned"
  /\ keysOf(fileOrder) = BuildFiles
  /\ Len(allDefinitions) = 2
  /\ \E o \in OrdersOfThisBuild :
       generateHtmlMulti([Env EXCEPT !.order = o]).definitions # allDefinitions

\* the entries of the output map under a key
EntriesAt(m, k) == {i \in 1..Len(m) : m[i].key = k}

\* the output map holds one document per input file, under the file's
\* identifier, the index page unless it is suppressed, and nothing else
OneDocumentPerFile(m) ==
  /\ \A f \in keysOf(fileOrder) :
       /\ Cardinality(EntriesAt(m, f)) = 1
       /\ \A i \in EntriesAt(m, f) :
            m[i].value.kind = "document"
  /\ Cardinality({i \in 1..Len(m) : m[i].value.kind = "index"})
       = IF buildOptions.skipIndex THEN 0 ELSE 1
  /\ Len(m) = Len(fileOrder) + (IF buildOptions.skipIndex THEN 0 ELSE 1)

\* C16: the output map generateHtmlMulti returns holds exactly one document
\* per input file, keyed by the file's identifier, and exactly one index
\* document if and only if the index is not suppressed; and no step of the
\* build replaces or removes an entry that was inserted.
C16_OneDocumentPerFileNoneReplaced ==
  [][ /\ Len(results') >= Len(results)
      /\ \A i \in 1..Len(results) : results'[i] = results[i]
      /\ pc' = "returned" => OneDocumentPerFile(results') ]_vars

\* a build of several files has returned with its index page
C16_Witness ==
  /\ pc = "returned"
  /\ Len(fileOrder) >= 2
  /\ ~buildOptions.skipIndex
  /\ mapHas(results, indexKey(ProjectRoot))
  /\ OneDocumentPerFile(results)

\* a build has returned without an index page
C16_WitnessSuppressed ==
  /\ pc = "returned"
  /\ buildOptions.skipIndex
  /\ Len(results) = Len(fileOrder)

RECURSIVE EmittedText(_)
\* the characters a code block shows, in order: the text of its elements
\* and the text between them
EmittedText(parts) ==
  IF parts = <<>> THEN <<>> ELSE Head(parts).text \o EmittedText(Tail(parts))

\* the escaped text of the analysed file in the range of a layer
RangeText(filename, layer) ==
  escapeHtml(sliceRange(serviceText(filename), layer.offset,
                        layer.offset + layer.originalLength))

\* `shown` is `whole` without some of the line ends at its end
OnlyTrailingNewlinesRemoved(shown, whole) ==
  /\ Len(shown) <= Len(whole)
  /\ SubSeq(whole, 1, Len(shown)) = shown
  /\ \A i \in Len(shown) + 1..Len(whole) : whole[i] = NL

\* the layer loop has just rendered a code layer with the analysis service
\* at hand
CodeLayerRendered ==
  /\ pc = "layers"
  /\ layerIdx > 1
  /\ layers[layerIdx - 1].role = "code"
  /\ serviceState = "ok"

\* C17: the block renderCodeBlock returns for a code layer, whose spans do
\* not overlap, shows every character of the analysed text in
\* [offset, offset + originalLength) exactly once and in order, and no
\* character outside that range; only line ends at the end of the block are
\* missing.
C17_EmitsLayerRangeOnce ==
  CodeLayerRendered =>
    OnlyTrailingNewlinesRemoved(EmittedText(Last(body).parts),
                                RangeText(fileOrder[fileIdx], layers[layerIdx - 1]))

\* the blocks of the files in which no span leaves the range of its layer
\* show the range of the layer
C17_HoldsWhereSpansStayInLayer ==
  (CodeLayerRendered /\ fileOrder[fileIdx] # FileD) =>
    OnlyTrailingNewlinesRemoved(EmittedText(Last(body).parts),
                                RangeText(fileOrder[fileIdx], layers[layerIdx - 1]))

\* a code layer of FileA, with tokens and text between them, was rendered
C17_RenderedWithGaps ==
  /\ CodeLayerRendered
  /\ fileOrder[fileIdx] = FileA
  /\ \E i, j \in 1..Len(Last(body).parts) :
       Last(body).parts[i].kind = "element" /\ Last(body).parts[j].kind = "text"

\* the service has no program, or no source file for the file being rendered
MissingContext ==
  \/ serviceState = "noProgram"
  \/ serviceState = "noSourceFile" /\ fileOrder[fileIdx] = FileB

\* the layer loop is about to render a code layer
AtCodeLayer ==
  /\ pc = "layers"
  /\ layerIdx <= Len(layers)
  /\ layers[layerIdx].role = "code"

\* the tokens a step has processed
NewTokens == SubSeq(processed', Len(processed) + 1, Len(processed'))

\* a token of a linkable class for which the service has no definition
LinkableWithoutDefinition(token) ==
  /\ token.classes[1] \in {classNameOf(t) : t \in linkableTypes}
  /\ token.definitionId = <<>>

\* the block holds the token as a span without a link
ShownAsPlainSpan(parts, token) ==
  \E i \in 1..Len(parts) :
    /\ parts[i].kind = "element"
    /\ parts[i].tag = "span"
    /\ parts[i].text = escapeHtml(token.text)
    /\ "href" \notin DOMAIN parts[i].attrs
    /\ parts[i].attrs["class"] = classAttr(token)

\* C18: a render never aborts for missing context. Without a program, or
\* without a source file for the current file, renderCodeBlock returns the
\* escaped content of the layer as one block without elements and leaves the
\* definition registry, the external-file set, the hover side map and the
\* token counter as they were; a linkable token for which the service has no
\* definition is rendered as a span without a link and registers nothing.
C18_MissingContextDegrades ==
  [][ /\ (AtCodeLayer /\ MissingContext) =>
           /\ pc' = "layers"
           /\ body' = Append(body, Pre(<<TextPart(escapeHtml(layers[layerIdx].content))>>))
           /\ UNCHANGED <<allDefinitions, externalFiles, quickInfoMap,
                          tokenIdCounter, registrations>>
      /\ (AtCodeLayer /\ ~MissingContext) =>
           \A i \in 1..Len(NewTokens) :
             (/\ LinkableWithoutDefinition(NewTokens[i])
              /\ NewTokens[i].start >= layers[layerIdx].offset
              /\ pc' # "threw") =>
               /\ ShownAsPlainSpan(Last(body').parts, NewTokens[i])
               /\ ~mapHas(allDefinitions',
                          definitionKey(fileOrder[fileIdx], NewTokens[i].start)) ]_vars

\* a code layer was returned as its escaped content because the service had
\* no program
C18_Witness ==
  /\ serviceState = "noProgram"
  /\ pc = "layers"
  /\ layerIdx > 1
  /\ layers[layerIdx - 1].role = "code"
  /\ Last(body) = Pre(<<TextPart(escapeHtml(layers[layerIdx - 1].content))>>)
  /\ processed = <<>>

\* FileB had no source file in the program while FileA was rendered with
\* its tokens
C18_WitnessNoSourceFile ==
  /\ serviceState = "noSourceFile"
  /\ pc = "returned"
  /\ mapHas(results, FileB)
  /\ ElementsOf(DocumentAt(FileB)) = {}
  /\ mapHas(results, FileA)
  /\ ElementsOf(DocumentAt(FileA)) # {}

\* the string of FileB, which has no definition, was rendered as a span
C18_WitnessNoDefinition ==
  /\ serviceState = "ok"
  /\ pc = "layers"
  /\ fileOrder[fileIdx] = FileB
  /\ layerIdx > 1
  /\ \E i \in 1..Len(processed) :
       /\ LinkableWithoutDefinition(processed[i])
       /\ ShownAsPlainSpan(Last(body).parts, processed[i])

\* ------------------------------------------------------------------------
\* Single-file mode: the claims
\* ------------------------------------------------------------------------

\* a renderToken call of a single-file build on a token whose definition is
\* in another file
CrossFileCallsOfSingleFileMode ==
  {i \in TokenCalls :
     /\ ~renderOpts.hasKnownFiles
     /\ ~renderOpts.hasComputeLink
     /\ isReference(calls[i].token)
     /\ calls[i].token.definitionFile # calls[i].file}

\* the link of single-file mode: the definition file with .ts replaced by
\* .html (.d.ts by .d.html), '#', and the anchor of the definition
FallbackLink(out, token) ==
  /\ out.kind = "element"
  /\ out.tag = "a"
  /\ "href" \in DOMAIN out.attrs
  /\ out.attrs["href"] = toHtmlPath(token.definitionFile) \o <<"#">>
                           \o defAnchor(token.definitionId)
  /\ out.attrs["class"] = classAttr(token)
  /\ out.text = escapeHtml(token.text)

\* C19: in single-file mode (no known file set, no link function) a linkable
\* token, an import-path string included, whose definition is in another
\* file is rendered as a link whose href is the definition file's name with
\* .ts replaced by .html (.d.ts by .d.html), '#' and the definition's
\* anchor, and which keeps the token's classes.
C19_SingleFileFallbackLink ==
  \A i \in CrossFileCallsOfSingleFileMode :
    FallbackLink(calls[i].out, calls[i].token)

\* the copy of renderToken that declares `anchor` renders the link of C19
C19_HoldsWithDeclaredAnchor ==
  tokensCopy = "plain" => C19_SingleFileFallbackLink

\* single-file mode has rendered the link of an import-path string to a
\* declaration file
C19_RenderedStringLink ==
  \E i \in CrossFileCallsOfSingleFileMode :
    /\ calls[i].token.classes = <<"string">>
    /\ calls[i].token.definitionFile = FileX
    /\ FallbackLink(calls[i].out, calls[i].token)

\* ------------------------------------------------------------------------
\* Layers and the analysed text: the claims
\* ------------------------------------------------------------------------

\* C23: every layer extractLayers returns, for every source, has content of
\* at least one character, and a run of lines that accumulates no content
\* gives no layer.
C23_NoEmptyLayer ==
  pc = "extracted" =>
    /\ \A i \in 1..Len(layers) : Len(layers[i].content) > 0
    /\ \A o \in RunStarts(source) :
         EmptyRun(source, o) => \A i \in 1..Len(layers) : layers[i].offset # o

\* the layers of a source that ends in a prose line without content, after
\* a layer of code
C23_Witness ==
  /\ pc = "extracted"
  /\ Len(layers) > 0
  /\ \E o \in RunStarts(source) :
       o > 0 /\ EmptyRun(source, o) /\ RoleAt(source, o) = "prose"

\* the characters of text in the range of a layer
LayerRange(text, layer) ==
  SubSeq(text, layer.offset + 1, layer.offset + layer.originalLength)

\* C29: for every source and every code layer of extractLayers the content
\* of the layer is the source in [offset, offset + originalLength) and is
\* the illiterated source in that range; in the range of every prose layer
\* the illiterated source holds only white space and line ends.
C29_AnalysedTextAgreesWithLayers ==
  pc = "extracted" =>
    \A i \in 1..Len(layers) :
      IF layers[i].role = "code"
        THEN /\ layers[i].content = LayerRange(source, layers[i])
             /\ layers[i].content = LayerRange(illiterate(source), layers[i])
        ELSE \A j \in layers[i].offset + 1..layers[i].offset + layers[i].originalLength :
               /\ j <= Len(illiterate(source))
               /\ illiterate(source)[j] \in WhiteSpace \cup {NL}

\* a source with a code layer after an indented prose line that has text,
\* and a prose layer that took blank lines in
C29_Witness ==
  /\ pc = "extracted"
  /\ \E i, j \in 1..Len(layers) :
       /\ i < j
       /\ layers[i].role = "prose"
       /\ layers[j].role = "code"
       /\ \E k \in 1..layers[i].originalLength :
            LayerRange(source, layers[i])[k] = NL
            /\ k < layers[i].originalLength

\* ------------------------------------------------------------------------
\* Hover identifiers: the claims
\* ------------------------------------------------------------------------

\* the calls of renderToken on a token that has hover text
HoverCalls == {i \in TokenCalls : calls[i].token.quickInfo # <<>>}

\* the identifier of the i-th call: 't' and the number of hover tokens
\* rendered before it
AssignedId(i) == tokenIdOf(Cardinality({j \in HoverCalls : j < i}))

\* the value the side map holds under a key it has
ValueAt(m, k) == m[CHOOSE i \in 1..Len(m) : m[i].key = k].value

\* C22: within one rendering, whose counter starts at 0, each token with
\* hover text is assigned 't' + n, n being the number of tokens with hover
\* text rendered before it: the identifiers increase strictly in render
\* order, none is used twice, the side map holds under each the hover text
\* of its token, an element that is not a definition site carries it as its
\* id, and two references to one definition get different identifiers.
C22_HoverIdentifiersCountUp ==
  /\ tokenIdCounter = Cardinality(HoverCalls)
  /\ \A i \in HoverCalls :
       /\ mapHas(quickInfoMap, AssignedId(i))
       /\ Cardinality({k \in 1..Len(quickInfoMap) :
                         quickInfoMap[k].key = AssignedId(i)}) = 1
       /\ ValueAt(quickInfoMap, AssignedId(i)) = calls[i].token.quickInfo
       /\ (calls[i].out.kind = "element" /\ ~calls[i].token.isDefinition)
            => calls[i].out.attrs["id"] = AssignedId(i)
  /\ \A i, j \in HoverCalls :
       i < j => /\ AssignedId(i) # AssignedId(j)
                /\ Cardinality({k \in HoverCalls : k < i})
                     < Cardinality({k \in HoverCalls : k < j})

\* two references to one definition, both with hover text, were rendered
\* as elements
C22_Witness ==
  \E i, j \in HoverCalls :
    /\ i < j
    /\ isReference(calls[i].token)
    /\ isReference(calls[j].token)
    /\ calls[i].token.definitionId = calls[j].token.definitionId
    /\ calls[i].out.kind = "element"
    /\ calls[j].out.kind = "element"
    /\ calls[i].out.attrs["id"] = <<"t", "0">>
    /\ calls[j].out.attrs["id"] = <<"t", "1">>

\* the documents of the files rendered so far
RenderedDocuments ==
  {results[i].value : i \in {k \in 1..Len(results) : results[k].value.kind = "document"}}

\* the ids of the elements of a document
IdsOf(doc) == {e.attrs["id"] : e \in {x \in ElementsOf(doc) : "id" \in DOMAIN x.attrs}}

\* the keys of the hover side map a document was wrapped with
TemplateKeys(doc) == {doc.templates[i].key : i \in 1..Len(doc.templates)}

\* an id of the form 't' + n
CounterId(id) ==
  /\ Len(id) > 1
  /\ id[1] = "t"
  /\ \A k \in 2..Len(id) : \E d \in 1..Len(Digits) : Digits[d] = id[k]

\* C30: after a file has been rendered every key of its hover side map is
\* the id of some element of the file's document, and every id of the form
\* 't' + n in the document is a key of the side map.
C30_TemplatesAndIdsAgree ==
  \A doc \in RenderedDocuments :
    /\ TemplateKeys(doc) \subseteq IdsOf(doc)
    /\ {id \in IdsOf(doc) : CounterId(id)} \subseteq TemplateKeys(doc)

\* every id 't' + n of a document is a key of its side map, and the keys
\* without an element are counter ids
C30_OnlyCounterKeysWithoutElement ==
  \A doc \in RenderedDocuments :
    /\ {id \in IdsOf(doc) : CounterId(id)} \subseteq TemplateKeys(doc)
    /\ \A k \in TemplateKeys(doc) \ IdsOf(doc) : CounterId(k)

\* ------------------------------------------------------------------------
\* The symbol index (index.ts: renderSymbolTree, renderSymbolChildren)
\* ------------------------------------------------------------------------

topLevel == {"var", "let", "const"}

structural ==
  {"function", "method", "class", "interface", "property", "type alias",
   "enum", "constructor"}

hideChildren == {"function", "method"}

\* a node of the navigation tree; a node without children has no childItems
Node(kind, childItems) == [kind |-> kind, childItems |-> childItems]

\* items.filter(...): the positions of the items that are kept
filtered(items, depth) ==
  SelectSeq([i \in 1..Len(items) |-> i],
            LAMBDA i : \/ items[i].kind \in structural
                       \/ depth = 0 /\ items[i].kind \in topLevel)

RECURSIVE renderSymbolChildren(_, _, _)
\* the list renderSymbolChildren writes: <<>> is the empty string, and an
\* item is told from the others by the place of its node in the tree, as
\* the anchor built from item.nameSpan.start does
renderSymbolChildren(items, path, depth) ==
  IF filtered(items, depth) = <<>> THEN <<>>
  ELSE [tag |-> "ul",
        items |->
          [k \in 1..Len(filtered(items, depth)) |->
             [kind |-> items[filtered(items, depth)[k]].kind,
              node |-> Append(path, filtered(items, depth)[k]),
              children |->
                IF /\ items[filtered(items, depth)[k]].childItems # <<>>
                   /\ items[filtered(items, depth)[k]].kind \notin hideChildren
                  THEN renderSymbolChildren(
                         items[filtered(items, depth)[k]].childItems,
                         Append(path, filtered(items, depth)[k]), depth + 1)
                  ELSE <<>>]]]

\* skip the root "module" node, just render children
renderSymbolTree(node) ==
  IF node.kind = "module" /\ node.childItems # <<>>
    THEN renderSymbolChildren(node.childItems, <<>>, 0)
    ELSE <<>>

\* ---- the trees the service returns --------------------------------------

\* the number of items directly under the root
MaxItems == 2

\* every sequence over S of at most n elements
SeqsUpTo(S, n) == UNION {[1..k -> S] : k \in 0..n}

\* the kinds of the nodes: a function (structural, children hidden), a
\* class (structural), a const (listed at the top only), a namespace
\* (never listed)
NodeKinds == {"function", "class", "const", "module"}

\* the innermost nodes
InnerNodes == {Node(k, <<>>) : k \in {"function", "const"}}

\* nodes with at most one innermost node under them
MiddleNodes ==
  {Node(k, c) : k \in {"function", "class", "const"}, c \in SeqsUpTo(InnerNodes, 1)}

\* the nodes directly under the root
TopNodes == {Node(k, c) : k \in NodeKinds, c \in SeqsUpTo(MiddleNodes, 1)}

\* the root of the tree of a file: a module if the file has an import or an
\* export, a script otherwise
NavigationTrees ==
  {Node(k, c) : k \in {"module", "script"}, c \in SeqsUpTo(TopNodes, MaxItems)}

InitIndex ==
  /\ navigationTree \in NavigationTrees
  /\ symbolHtml = <<>>
  /\ indexPc = "tree"
  /\ source = <<>>
  /\ pc = "idle"
  /\ layers = <<>>
  /\ masked = <<>>
  /\ remasked = <<>>
  /\ NoTokenState
  /\ NoLinkState
  /\ NoInitState
  /\ NoBuildState
  /\ NoExternState
  /\ NoServerState

\* body += renderSymbolTree(tree, htmlPath, filename)
RenderSymbolTree ==
  /\ indexPc = "tree"
  /\ symbolHtml' = renderSymbolTree(navigationTree)
  /\ indexPc' = "rendered"
  /\ UNCHANGED <<navigationTree, extractVars, tokenVars, linkVars, initVars,
                 buildVars, externVars, serverVars>>

NextIndex == RenderSymbolTree

SpecIndex == InitIndex /\ [][NextIndex]_vars

\* ---- the index: the claims -----------------------------------------------

RECURSIVE ListedNodes(_)
\* the nodes a list and its nested lists show
ListedNodes(html) ==
  IF html = <<>> THEN {}
  ELSE UNION {{html.items[k].node} \cup ListedNodes(html.items[k].children) :
              k \in 1..Len(html.items)}

RECURSIVE NodeAt(_, _)
\* the node at a place of the tree; only read at the places the tree has
NodeAt(node, path) ==
  IF path = <<>> THEN node ELSE NodeAt(node.childItems[Head(path)], Tail(path))

RECURSIVE PlacesUnder(_, _)
\* the places of the nodes under a node
PlacesUnder(node, path) ==
  UNION {{Append(path, i)} \cup PlacesUnder(node.childItems[i], Append(path, i)) :
         i \in 1..Len(node.childItems)}

\* the kind of the node is one the index shows at its depth
KindShown(tree, path) ==
  \/ NodeAt(tree, path).kind \in structural
  \/ Len(path) = 1 /\ NodeAt(tree, path).kind \in topLevel

\* every ancestor under the root is shown and is not a function or method,
\* and the node's kind is shown
ShouldBeListed(tree, path) ==
  /\ KindShown(tree, path)
  /\ \A n \in 1..Len(path) - 1 :
       /\ KindShown(tree, SubSeq(path, 1, n))
       /\ NodeAt(tree, SubSeq(path, 1, n)).kind \notin {"function", "method"}

\* C21: the index lists a node of the outline if and only if every ancestor
\* shown above it is listed and is not a function or a method, and the
\* node's kind is structural or, for the direct children of the root only,
\* a variable-binding kind; children of functions and methods are never
\* listed.
C21_IndexListsStructuralNodes ==
  indexPc = "rendered" =>
    ListedNodes(symbolHtml)
      = {p \in PlacesUnder(navigationTree, <<>>) : ShouldBeListed(navigationTree, p)}

\* for a file that is a module the index lists what C21 states
C21_HoldsForModules ==
  (indexPc = "rendered" /\ navigationTree.kind = "module") =>
    ListedNodes(symbolHtml)
      = {p \in PlacesUnder(navigationTree, <<>>) : ShouldBeListed(navigationTree, p)}

\* the index of a module lists a node under a class, leaves out a node under
\* a function, and leaves out a const below the top
C21_ListedAndHidden ==
  /\ indexPc = "rendered"
  /\ navigationTree.kind = "module"
  /\ \E p \in ListedNodes(symbolHtml) : Len(p) = 2
  /\ \E p \in PlacesUnder(navigationTree, <<>>) :
       /\ Len(p) = 2
       /\ NodeAt(navigationTree, p).kind = "function"
       /\ NodeAt(navigationTree, SubSeq(p, 1, 1)).kind = "function"
       /\ p \notin ListedNodes(symbolHtml)

\* ------------------------------------------------------------------------
\* processExternals (cli.ts)
\* ------------------------------------------------------------------------

\* the files outside the project that may be referred to
ExternalUniverse == {FileX, FileG, FileC}

\* no file: the file refers to no other external file
NoFile == <<>>

Range(s) == {s[i] : i \in 1..Len(s)}

\* the loop body without the existsSync test
visitFile_noExistsCheck(st, file) ==
  IF file \in Range(st.handled) THEN st
  ELSE [handled |-> Append(st.handled, file),
        skipLog |-> st.skipLog,
        allExternals |-> st.allExternals \cup {file}]

\* the body of the loop over the batch: processed.has / processed.add, the
\* existsSync test with its notice, allExternals.set
visitFile(st, file) ==
  IF file \in Range(st.handled) THEN st
  ELSE IF file \notin onDisk
    THEN [handled |-> Append(st.handled, file),
          skipLog |-> st.skipLog \cup {file},
          allExternals |-> st.allExternals]
  ELSE [handled |-> Append(st.handled, file),
        skipLog |-> st.skipLog,
        allExternals |-> st.allExternals \cup {file}]

\* the options renderCodeBlock passes to renderToken in the build of the
\* externals: includeExternals: true
ExternalsBuildOpts ==
  [hasKnownFiles |-> TRUE, knownFiles |-> allExternals, hasComputeLink |-> TRUE,
   includeExternals |-> TRUE, projectRoot |-> ProjectRoot,
   hasQuickInfoMap |-> TRUE, quickInfoMap |-> <<>>,
   hasTokenIdCounter |-> TRUE, tokenIdCounter |-> 0]

\* the token of `file` that refers to the file it references
referenceToken(file) ==
  Token(30, <<"f">>, <<"identifier">>, definitionKey(references[file], 0),
        references[file], FALSE, <<>>)

\* generateHtmlMulti throws while it renders a reference of one of the files
buildThrows ==
  \E file \in allExternals :
    /\ references[file] # NoFile
    /\ (IF tokensCopy = "literate"
          THEN renderToken(referenceToken(file), file, ExternalsBuildOpts)
          ELSE renderTokenPlain(referenceToken(file), file, ExternalsBuildOpts)).kind
         = "throw"

InitExternals ==
  /\ externalsArg \in SUBSET ExternalUniverse \ {{}}
  /\ references \in {r \in [ExternalUniverse -> ExternalUniverse \cup {NoFile}] :
                       \A f \in ExternalUniverse : r[f] # f}
  /\ onDisk \in SUBSET ExternalUniverse
  /\ tokensCopy \in {"literate", "plain"}
  /\ toProcess = externalsArg
  /\ batch = {}
  /\ handled = <<>>
  /\ allExternals = {}
  /\ skipLog = {}
  /\ buildRuns = <<>>
  /\ discovered = {}
  /\ writtenFiles = {}
  /\ extPc = "while"
  /\ renderOpts = SingleFileOpts
  /\ quickInfoMap = <<>>
  /\ tokenIdCounter = 0
  /\ calls = <<>>
  /\ source = <<>>
  /\ pc = "idle"
  /\ layers = <<>>
  /\ masked = <<>>
  /\ remasked = <<>>
  /\ NoLinkState
  /\ NoInitState
  /\ NoBuildState
  /\ NoIndexState
  /\ NoServerState

otherThanExternVars ==
  <<extractVars, tokenVars, linkVars, initVars, buildVars, indexVars, serverVars>>

\* const batch = [...toProcess]; toProcess.clear()
TakeBatch ==
  /\ extPc = "while"
  /\ toProcess # {}
  /\ batch' = toProcess
  /\ toProcess' = {}
  /\ extPc' = "for"
  /\ UNCHANGED <<externalsArg, references, onDisk, handled, allExternals, skipLog,
                 buildRuns, discovered, writtenFiles, otherThanExternVars>>

\* one round of for (const file of batch)
VisitFile(file) ==
  /\ extPc = "for"
  /\ file \in batch
  /\ batch' = batch \ {file}
  /\ handled' = visitFile([handled |-> handled, skipLog |-> skipLog,
                           allExternals |-> allExternals], file).handled
  /\ skipLog' = visitFile([handled |-> handled, skipLog |-> skipLog,
                           allExternals |-> allExternals], file).skipLog
  /\ allExternals' = visitFile([handled |-> handled, skipLog |-> skipLog,
                                allExternals |-> allExternals], file).allExternals
  /\ UNCHANGED <<externalsArg, references, onDisk, toProcess, buildRuns,
                 discovered, writtenFiles, extPc, otherThanExternVars>>

\* the for loop is through its batch
EndBatch ==
  /\ extPc = "for"
  /\ batch = {}
  /\ extPc' = "while"
  /\ UNCHANGED <<externalsArg, references, onDisk, toProcess, batch, handled,
                 allExternals, skipLog, buildRuns, discovered, writtenFiles,
                 otherThanExternVars>>

\* while (toProcess.size > 0) is left; if (allExternals.size === 0) return
LeaveLoop ==
  /\ extPc = "while"
  /\ toProcess = {}
  /\ extPc' = IF allExternals = {} THEN "done" ELSE "build"
  /\ UNCHANGED <<externalsArg, references, onDisk, toProcess, batch, handled,
                 allExternals, skipLog, buildRuns, discovered, writtenFiles,
                 otherThanExternVars>>

\* const result = await generateHtmlMulti(allExternals, {includeExternals:
\* true, skipIndex: true}); result.externalFiles is what the files refer to
\* outside allExternals
BuildExternals ==
  /\ extPc = "build"
  /\ buildRuns' = Append(buildRuns, allExternals)
  /\ discovered' = IF buildThrows THEN discovered
                   ELSE {references[f] : f \in allExternals}
                          \ ({NoFile} \cup allExternals)
  /\ extPc' = IF buildThrows THEN "threw" ELSE "write"
  /\ UNCHANGED <<externalsArg, references, onDisk, toProcess, batch, handled,
                 allExternals, skipLog, writtenFiles, otherThanExternVars>>

\* for (const [filename, html] of result.files) writeFileSync(outPath, html)
WriteExternals ==
  /\ extPc = "write"
  /\ writtenFiles' = allExternals
  /\ extPc' = "done"
  /\ UNCHANGED <<externalsArg, references, onDisk, toProcess, batch, handled,
                 allExternals, skipLog, buildRuns, discovered,
                 otherThanExternVars>>

NextExternals ==
  \/ TakeBatch
  \/ \E file \in ExternalUniverse : VisitFile(file)
  \/ EndBatch
  \/ LeaveLoop
  \/ BuildExternals
  \/ WriteExternals

SpecExternals == InitExternals /\ [][NextExternals]_vars

\* ---- processExternals: the claims ----------------------------------------

RECURSIVE ReachableFrom(_)
\* the files reached from a set of files over the references of the files
\* that exist
ReachableFrom(S) ==
  LET more == S \cup ({references[f] : f \in S \cap onDisk} \ {NoFile})
  IN  IF more = S THEN S ELSE ReachableFrom(more)

\* C24: when processExternals is done it has rendered every external file
\* that exists and is reachable from the set it was given: a file found
\* while a batch of externals was processed has gone into a later batch.
C24_RendersReachableExternals ==
  extPc = "done" => (ReachableFrom(externalsArg) \cap onDisk) \subseteq writtenFiles

\* processExternals takes one batch, and renders files of its argument only
C24_OneBatchOfTheArgument ==
  /\ writtenFiles \subseteq externalsArg
  /\ Range(handled) \subseteq externalsArg
  /\ extPc = "done" => toProcess = {} /\ discovered \cap writtenFiles = {}

\* a processed file cannot occur twice in `handled`
HandledOnce ==
  \A i, j \in 1..Len(handled) : handled[i] = handled[j] => i = j

C25_WitnessNoBuild ==
  /\ extPc = "done"
  /\ skipLog = externalsArg
  /\ buildRuns = <<>>

\* ------------------------------------------------------------------------
\* The dev server (cli.ts: startServer, regenerateFiles)

\* how many changes are made to the source directory, and how often the
\* watch callback runs
MaxEdits == 2
MaxWatch == 3

\* srcDir, resolved
SrcDir == ProjectRoot

\* the names fs.watch reports, relative to srcDir; NoName is its null
NoName == <<>>
NameA == <<"a", ".", "t", "s">>
NameE == <<"s", "r", "c", "/", "a", ".", "t", "s">>
NameG == <<"g", ".", "d", ".", "t", "s">>
NameJs == <<"a", ".", "j", "s">>
WatchNames == {NoName, NameA, NameE, NameG, NameJs}

\* path.resolve(srcDir, filename) of a relative file name
resolve(dir, filename) == dir \o <<"/">> \o filename

FileJs == resolve(SrcDir, NameJs)

\* the files findTsFiles can find, in the order it finds them
ServerFiles == <<FileA, FileE>>

\* the files that are written and removed while the server runs
SourceFiles == {ServerFiles[i] : i \in 1..Len(ServerFiles)}

\* every file of the source directory
ServerPaths == {FileA, FileE, FileG, FileJs}

\* what a file holds: a text, and whether the text refers to a definition
\* of another source file
Content(text, linked) == [text |-> text, linked |-> linked]
ServerContents ==
  {Content("v0", FALSE), Content("v1", FALSE), Content("v2", TRUE)}

\* Map.prototype.get of a key the map has
mapGet(m, k) == m[CHOOSE i \in 1..Len(m) : m[i].key = k].value

\* the callback without the comparison against the cache
watchCallback_noCompare(st, filename) ==
  LET absPath == resolve(SrcDir, filename)
  IN  IF filename = NoName \/ ~endsWith(filename, DotTs) \/ endsWith(filename, DotDTs)
        THEN [st EXCEPT !.accepted = FALSE]
      ELSE IF absPath \notin DOMAIN srcFiles
        THEN [st EXCEPT !.accepted = FALSE]
      ELSE [fileCache |-> mapSet(st.fileCache, absPath, srcFiles[absPath]),
            pendingChanges |-> st.pendingChanges \cup {absPath},
            debounceTimer |-> st.timerCount + 1,
            timers |-> (IF st.debounceTimer # 0
                          THEN st.timers \ {st.debounceTimer}
                          ELSE st.timers) \cup {st.timerCount + 1},
            timerCount |-> st.timerCount + 1,
            accepted |-> TRUE]

\* the callback without clearTimeout
watchCallback_noClear(st, filename) ==
  LET absPath == resolve(SrcDir, filename)
  IN  IF filename = NoName \/ ~endsWith(filename, DotTs) \/ endsWith(filename, DotDTs)
        THEN [st EXCEPT !.accepted = FALSE]
      ELSE IF absPath \notin DOMAIN srcFiles
        THEN [st EXCEPT !.accepted = FALSE]
      ELSE IF mapHas(st.fileCache, absPath)
              /\ mapGet(st.fileCache, absPath) = srcFiles[absPath]
        THEN [st EXCEPT !.accepted = FALSE]
      ELSE [fileCache |-> mapSet(st.fileCache, absPath, srcFiles[absPath]),
            pendingChanges |-> st.pendingChanges \cup {absPath},
            debounceTimer |-> st.timerCount + 1,
            timers |-> st.timers \cup {st.timerCount + 1},
            timerCount |-> st.timerCount + 1,
            accepted |-> TRUE]

\* the callback of watch(srcDir, ...): the tests of the file name, of
\* existsSync and of the content against the cache, then pendingChanges.add,
\* fileCache.set, clearTimeout and setTimeout. A timer is the number of the
\* setTimeout call that made it.
watchCallback(st, filename) ==
  LET absPath == resolve(SrcDir, filename)
  IN  IF filename = NoName \/ ~endsWith(filename, DotTs) \/ endsWith(filename, DotDTs)
        THEN [st EXCEPT !.accepted = FALSE]
      ELSE IF absPath \notin DOMAIN srcFiles
        THEN [st EXCEPT !.accepted = FALSE]
      ELSE IF mapHas(st.fileCache, absPath)
              /\ mapGet(st.fileCache, absPath) = srcFiles[absPath]
        THEN [st EXCEPT !.accepted = FALSE]
      ELSE [fileCache |-> mapSet(st.fileCache, absPath, srcFiles[absPath]),
            pendingChanges |-> st.pendingChanges \cup {absPath},
            debounceTimer |-> st.timerCount + 1,
            timers |-> (IF st.debounceTimer # 0
                          THEN st.timers \ {st.debounceTimer}
                          ELSE st.timers) \cup {st.timerCount + 1},
            timerCount |-> st.timerCount + 1,
            accepted |-> TRUE]

\* the options of the server's builds, --externals not given
ServerBuildOpts(fileMap) ==
  [hasKnownFiles |-> TRUE,
   knownFiles |-> {fileMap[i].key : i \in 1..Len(fileMap)},
   hasComputeLink |-> TRUE, includeExternals |-> FALSE,
   projectRoot |-> ProjectRoot, hasQuickInfoMap |-> TRUE, quickInfoMap |-> <<>>,
   hasTokenIdCounter |-> TRUE, tokenIdCounter |-> 0]

\* the token of a linked text: a reference to a definition of `target`
serverToken(target) ==
  Token(30, <<"f">>, <<"identifier">>, definitionKey(target, 0), target,
        FALSE, <<>>)

\* generateHtmlMulti(fileMap) throws while it renders the reference of a
\* linked text to another file of fileMap
rebuildThrows(fileMap) ==
  \E i, j \in 1..Len(fileMap) :
    /\ i # j
    /\ fileMap[i].value.linked
    /\ (IF tokensCopy = "literate"
          THEN renderToken(serverToken(fileMap[j].key), fileMap[i].key,
                           ServerBuildOpts(fileMap))
          ELSE renderTokenPlain(serverToken(fileMap[j].key), fileMap[i].key,
                                ServerBuildOpts(fileMap))).kind = "throw"

\* the document generateHtmlMulti(fileMap) makes of a file, by what it is
\* made from
documentOf(fileMap, filename) ==
  [of |-> filename, from |-> <<mapGet(fileMap, filename)>>]

\* the index it makes, which lists every file of fileMap
indexOf(fileMap) ==
  [of |-> indexKey(ProjectRoot),
   from |-> [i \in 1..Len(fileMap) |-> fileMap[i].value]]

\* result.files of generateHtmlMulti(fileMap)
resultFiles(fileMap) ==
  Append([i \in 1..Len(fileMap) |->
            [key |-> fileMap[i].key, value |-> documentOf(fileMap, fileMap[i].key)]],
         [key |-> indexKey(ProjectRoot), value |-> indexOf(fileMap)])

IndexHtml == <<"/", "i", "n", "d", "e", "x", ".", "h", "t", "m", "l">>

\* regenerateFiles: for (const [filename, html] of result.files), writing
\* the index and the files of changedSet
RECURSIVE writeChanged(_, _, _)
writeChanged(docs, files, changedSet) ==
  IF files = <<>> THEN docs
  ELSE LET filename == Head(files).key
           isIndex == endsWith(filename, IndexHtml)
       IN  writeChanged(IF isIndex \/ filename \in changedSet
                          THEN mapSet(docs,
                                      toOutputPath(filename, ProjectRoot, OutputDir),
                                      Head(files).value)
                          ELSE docs,
                        Tail(files), changedSet)

\* startServer: the cache the initial build is made from
initialCache ==
  LET found == SelectSeq(ServerFiles, LAMBDA f : f \in DOMAIN srcFiles)
  IN  [i \in 1..Len(found) |-> [key |-> found[i], value |-> srcFiles[found[i]]]]

\* the server after its initial build, which wrote every document, at
\* watch(srcDir, ...)
InitServer ==
  /\ tokensCopy \in {"literate", "plain"}
  /\ \E present \in {{FileA, FileG, FileJs}, ServerPaths} :
       srcFiles \in [present -> {Content("v0", FALSE)}]
  /\ fileCache = initialCache
  /\ pendingChanges = {}
  /\ debounceTimer = 0
  /\ timers = {}
  /\ timerCount = 0
  /\ rebuilds = <<>>
  /\ outputDocs = writeChanged(<<>>, resultFiles(initialCache), SourceFiles)
  /\ events = <<>>
  /\ lastWatch = [filename |-> NoName, accepted |-> FALSE]
  /\ watchCount = 0
  /\ edits = 0
  /\ renderOpts = SingleFileOpts
  /\ quickInfoMap = <<>>
  /\ tokenIdCounter = 0
  /\ calls = <<>>
  /\ source = <<>>
  /\ pc = "idle"
  /\ layers = <<>>
  /\ masked = <<>>
  /\ remasked = <<>>
  /\ NoLinkState
  /\ NoInitState
  /\ NoBuildState
  /\ NoIndexState
  /\ NoExternState

otherThanServerVars ==
  <<extractVars, tokenVars, linkVars, initVars, buildVars, indexVars, externVars>>

\* a file of the source directory is written
EditFile(file, content) ==
  /\ edits < MaxEdits
  /\ file \in DOMAIN srcFiles => srcFiles[file] # content
  /\ srcFiles' = [g \in DOMAIN srcFiles \cup {file} |->
                    IF g = file THEN content ELSE srcFiles[g]]
  /\ edits' = edits + 1
  /\ UNCHANGED <<fileCache, pendingChanges, debounceTimer, timers, timerCount,
                 rebuilds, outputDocs, events, lastWatch, watchCount,
                 otherThanServerVars>>

\* a file of the source directory is removed
DeleteFile(file) ==
  /\ edits < MaxEdits
  /\ file \in DOMAIN srcFiles
  /\ srcFiles' = [g \in DOMAIN srcFiles \ {file} |-> srcFiles[g]]
  /\ edits' = edits + 1
  /\ UNCHANGED <<fileCache, pendingChanges, debounceTimer, timers, timerCount,
                 rebuilds, outputDocs, events, lastWatch, watchCount,
                 otherThanServerVars>>

serverState ==
  [fileCache |-> fileCache, pendingChanges |-> pendingChanges,
   debounceTimer |-> debounceTimer, timers |-> timers,
   timerCount |-> timerCount, accepted |-> FALSE]

\* what a run of the callback leaves
afterWatch(filename, st) ==
  /\ fileCache' = st.fileCache
  /\ pendingChanges' = st.pendingChanges
  /\ debounceTimer' = st.debounceTimer
  /\ timers' = st.timers
  /\ timerCount' = st.timerCount
  /\ lastWatch' = [filename |-> filename, accepted |-> st.accepted]
  /\ events' = IF st.accepted
                 THEN Append(events, [file |-> resolve(SrcDir, filename),
                                      at |-> Len(rebuilds)])
                 ELSE events

\* fs.watch calls the callback with a file name
WatchEvent(filename) ==
  /\ watchCount < MaxWatch
  /\ watchCount' = watchCount + 1
  /\ afterWatch(filename, watchCallback(serverState, filename))
  /\ UNCHANGED <<srcFiles, rebuilds, outputDocs, edits, otherThanServerVars>>

\* the timer's callback: changedFiles = [...pendingChanges],
\* pendingChanges.clear(), then regenerateFiles up to its await of
\* generateHtmlMulti(fileMap), fileMap being the cache as it is now.
\* debounceTimer keeps the timer that fired.
TimerFires(timer) ==
  /\ timer \in timers
  /\ timers' = timers \ {timer}
  /\ pendingChanges' = {}
  /\ rebuilds' =
       Append([i \in 1..Len(rebuilds) |->
                 IF rebuilds[i].state = "suspended"
                   THEN [rebuilds[i] EXCEPT !.overlapped = TRUE]
                   ELSE rebuilds[i]],
              [changedFiles |-> pendingChanges, fileMap |-> fileCache,
               state |-> "suspended",
               overlapped |-> \E i \in 1..Len(rebuilds) :
                                 rebuilds[i].state = "suspended"])
  /\ UNCHANGED <<srcFiles, fileCache, debounceTimer, timerCount, outputDocs,
                 events, lastWatch, watchCount, edits, otherThanServerVars>>

\* generateHtmlMulti settles and regenerateFiles goes on: it throws with
\* the build, or writes the index and the changed files. Nothing in the
\* program handles the rejection of the timer's callback.
CompleteRebuild(i) ==
  /\ i \in 1..Len(rebuilds)
  /\ rebuilds[i].state = "suspended"
  /\ rebuilds' = [rebuilds EXCEPT ![i].state =
                     IF rebuildThrows(rebuilds[i].fileMap) THEN "threw"
                     ELSE "written"]
  /\ outputDocs' = IF rebuildThrows(rebuilds[i].fileMap) THEN outputDocs
                   ELSE writeChanged(outputDocs, resultFiles(rebuilds[i].fileMap),
                                     rebuilds[i].changedFiles)
  /\ UNCHANGED <<srcFiles, fileCache, pendingChanges, debounceTimer, timers,
                 timerCount, events, lastWatch, watchCount, edits,
                 otherThanServerVars>>

NextServer ==
  \/ \E file \in SourceFiles, content \in ServerContents : EditFile(file, content)
  \/ \E file \in SourceFiles : DeleteFile(file)
  \/ \E filename \in WatchNames : WatchEvent(filename)
  \/ \E timer \in 1..MaxEdits : TimerFires(timer)
  \/ \E i \in 1..MaxEdits : CompleteRebuild(i)

\* the event loop runs a timer that is due
SpecServer ==
  /\ InitServer
  /\ [][NextServer]_vars
  /\ WF_vars(\E timer \in 1..MaxEdits : TimerFires(timer))

\* ---- the dev server: the claims ------------------------------------------

\* the files of the accepted events that came after `n` batches were taken
ChangedAfter(n) == {events[e].file : e \in {d \in 1..Len(events) : events[d].at = n}}

\* at most one timer is pending, the one debounceTimer holds, and it is
\* pending exactly while changes are; a batch taken is made of the files
\* changed since the batch before it
OneTimerAndExactBatches ==
  /\ Cardinality(timers) <= 1
  /\ timers # {} => timers = {debounceTimer}
  /\ (timers # {}) = (pendingChanges # {})
  /\ pendingChanges = ChangedAfter(Len(rebuilds))
  /\ \A k \in 1..Len(rebuilds) :
       /\ rebuilds[k].changedFiles = ChangedAfter(k - 1)
       /\ rebuilds[k].changedFiles # {}

\* an accepted event puts its file into the pending set and leaves one new
\* timer; the timer that fires takes the pending set as its batch and
\* leaves it empty
AcceptRestartsFireEmpties ==
  /\ \A filename \in WatchNames :
       (WatchEvent(filename) /\ lastWatch'.accepted) =>
         /\ pendingChanges' = pendingChanges \cup {resolve(SrcDir, filename)}
         /\ timerCount' = timerCount + 1
         /\ timers' = {timerCount'}
         /\ debounceTimer' = timerCount'
  /\ \A timer \in 1..MaxEdits :
       TimerFires(timer) =>
         /\ pendingChanges' = {}
         /\ timers' = {}
         /\ Len(rebuilds') = Len(rebuilds) + 1
         /\ rebuilds'[Len(rebuilds')].changedFiles = pendingChanges

\* every accepted event has had its batch
EveryChangeBatched ==
  /\ timers = {}
  /\ pendingChanges = {}
  /\ \A e \in 1..Len(events) :
       /\ events[e].at < Len(rebuilds)
       /\ events[e].file \in rebuilds[events[e].at + 1].changedFiles

\* C26: the dev server has at most one debounce timer pending; an accepted
\* change event adds its file to the pending set and restarts the timer;
\* the timer that fires takes as its batch exactly the files changed since
\* the batch before and empties the pending set; and once events have
\* stopped, every change is in the one batch that was taken after it.
C26_DebouncedBatches ==
  /\ []OneTimerAndExactBatches
  /\ [][AcceptRestartsFireEmpties]_vars
  /\ <>[]EveryChangeBatched

\* two files changed, the first change restarted by the second, and one
\* batch with both was taken
C26_Witness ==
  /\ Len(rebuilds) = 1
  /\ rebuilds[1].changedFiles = SourceFiles
  /\ timerCount = 2
  /\ timers = {}
  /\ pendingChanges = {}

\* the condition under which the callback returns early: no name, not a
\* .ts name, a .d.ts name, a file that does not exist, or the cached content
NoRealChange(filename) ==
  \/ filename = NoName
  \/ ~endsWith(filename, DotTs)
  \/ endsWith(filename, DotDTs)
  \/ resolve(SrcDir, filename) \notin DOMAIN srcFiles
  \/ /\ mapHas(fileCache, resolve(SrcDir, filename))
     /\ mapGet(fileCache, resolve(SrcDir, filename)) = srcFiles[resolve(SrcDir, filename)]

\* C27: a watch event for a file whose content is the cached content, or
\* that is no .ts source, is a .d.ts file or does not exist any more, leaves
\* the file cache, the pending set and the debounce timer as they are and
\* schedules no rebuild.
C27_NoChangeNoRebuild ==
  [][\A filename \in WatchNames :
       (WatchEvent(filename) /\ NoRealChange(filename)) =>
         /\ UNCHANGED <<fileCache, pendingChanges, debounceTimer, timers,
                        timerCount, rebuilds, events, outputDocs>>
         /\ ~lastWatch'.accepted]_vars

\* the callback returned early for a.ts, whose content is the cached one,
\* while a change of it was pending
C27_Witness ==
  /\ watchCount > 1
  /\ lastWatch = [filename |-> NameA, accepted |-> FALSE]
  /\ FileA \in DOMAIN srcFiles
  /\ mapGet(fileCache, FileA) = srcFiles[FileA]
  /\ pendingChanges = {FileA}
  /\ timers # {}

\* the callback returned early for a file name that is not a source's
C27_WitnessNotASource ==
  /\ lastWatch = [filename |-> NameG, accepted |-> FALSE]
  /\ watchCount > 0

\* the callback returned early for a file that does not exist any more
C27_WitnessRemoved ==
  /\ lastWatch = [filename |-> NameA, accepted |-> FALSE]
  /\ watchCount > 0
  /\ FileA \notin DOMAIN srcFiles

\* every rebuild that was started has written
AllRebuildsWritten ==
  /\ rebuilds # <<>>
  /\ \A i \in 1..Len(rebuilds) : rebuilds[i].state = "written"
  /\ timers = {}

\* the files some rebuild had in its batch
ChangedFiles == UNION {rebuilds[i].changedFiles : i \in 1..Len(rebuilds)}

\* what the output directory holds is made from the cache as it is
LatestOnDisk ==
  /\ \A file \in ChangedFiles :
       mapGet(outputDocs, toOutputPath(file, ProjectRoot, OutputDir))
         = documentOf(fileCache, file)
  /\ mapGet(outputDocs, toOutputPath(indexKey(ProjectRoot), ProjectRoot, OutputDir))
       = indexOf(fileCache)

C28_HoldsWithoutOverlap ==
  (AllRebuildsWritten /\ \A i \in 1..Len(rebuilds) : ~rebuilds[i].overlapped)
    => LatestOnDisk

\* two rebuilds overlapped and both have written
C28_Overlapped ==
  /\ AllRebuildsWritten
  /\ \E i \in 1..Len(rebuilds) : rebuilds[i].overlapped

====
